---- MODULE Spec2Model ----
(***************************************************************************)
(* A model of the GraphQL parser of src/language/parser.js.                *)
(*                                                                         *)
(* The parser is a recursive-descent engine over a token stream.  Every    *)
(* production of parser.js is an operator of the same name that takes the  *)
(* lexer state and returns either Ok(lexer', node) or Throw(lexer', error) *)
(* (a JavaScript `throw` unwinds: every caller returns the Throw it gets). *)
(* The three public entry points parse, parseValue and parseType are the   *)
(* actions of the state machine; the source they are given is drawn at     *)
(* Init from a bounded family of token streams.                            *)
(***************************************************************************)
EXTENDS Integers, Sequences, FiniteSets, TLC

\* ------------------------------------------------------------------------
\* Token kinds (lexer.js TokenKind, imported at parser.js:13; spec section 3)
\* ------------------------------------------------------------------------
TokenKind ==
  [ SOF |-> "<SOF>", EOF |-> "<EOF>", BANG |-> "!", DOLLAR |-> "$",
    PAREN_L |-> "(", PAREN_R |-> ")", SPREAD |-> "...", COLON |-> ":",
    EQUALS |-> "=", AT |-> "@", BRACKET_L |-> "[", BRACKET_R |-> "]",
    BRACE_L |-> "{", PIPE |-> "|", BRACE_R |-> "}", NAME |-> "Name",
    INT |-> "Int", FLOAT |-> "Float", STRING |-> "String",
    BLOCK_STRING |-> "BlockString", COMMENT |-> "Comment" ]

\* AST node kinds (kinds.js, imported at parser.js:59-97; spec section 3);
\* the prefix keeps them apart from TLA+'s own VARIABLE, STRING and BOOLEAN
Kind_NAME == "Name"
Kind_VARIABLE == "Variable"
Kind_DOCUMENT == "Document"
Kind_OPERATION_DEFINITION == "OperationDefinition"
Kind_VARIABLE_DEFINITION == "VariableDefinition"
Kind_SELECTION_SET == "SelectionSet"
Kind_FIELD == "Field"
Kind_ARGUMENT == "Argument"
Kind_FRAGMENT_SPREAD == "FragmentSpread"
Kind_INLINE_FRAGMENT == "InlineFragment"
Kind_FRAGMENT_DEFINITION == "FragmentDefinition"
Kind_INT == "IntValue"
Kind_FLOAT == "FloatValue"
Kind_STRING == "StringValue"
Kind_BOOLEAN == "BooleanValue"
Kind_NULL == "NullValue"
Kind_ENUM == "EnumValue"
Kind_LIST == "ListValue"
Kind_OBJECT == "ObjectValue"
Kind_OBJECT_FIELD == "ObjectField"
Kind_DIRECTIVE == "Directive"
Kind_NAMED_TYPE == "NamedType"
Kind_LIST_TYPE == "ListType"
Kind_NON_NULL_TYPE == "NonNullType"
Kind_SCHEMA_DEFINITION == "SchemaDefinition"
Kind_OPERATION_TYPE_DEFINITION == "OperationTypeDefinition"
Kind_SCALAR_TYPE_DEFINITION == "ScalarTypeDefinition"
Kind_OBJECT_TYPE_DEFINITION == "ObjectTypeDefinition"
Kind_FIELD_DEFINITION == "FieldDefinition"
Kind_INPUT_VALUE_DEFINITION == "InputValueDefinition"
Kind_INTERFACE_TYPE_DEFINITION == "InterfaceTypeDefinition"
Kind_UNION_TYPE_DEFINITION == "UnionTypeDefinition"
Kind_ENUM_TYPE_DEFINITION == "EnumTypeDefinition"
Kind_ENUM_VALUE_DEFINITION == "EnumValueDefinition"
Kind_INPUT_OBJECT_TYPE_DEFINITION == "InputObjectTypeDefinition"
Kind_OBJECT_TYPE_EXTENSION == "ObjectTypeExtension"
Kind_DIRECTIVE_DEFINITION == "DirectiveDefinition"

\* The closed set of directive locations (directiveLocation.js, imported at
\* parser.js:98; enumerated in the comment at parser.js:1160-1169).
DirectiveLocation ==
  { "QUERY", "MUTATION", "SUBSCRIPTION", "FIELD", "FRAGMENT_DEFINITION",
    "FRAGMENT_SPREAD", "INLINE_FRAGMENT", "SCHEMA", "SCALAR", "OBJECT",
    "FIELD_DEFINITION", "ARGUMENT_DEFINITION", "INTERFACE", "UNION", "ENUM",
    "ENUM_VALUE", "INPUT_OBJECT", "INPUT_FIELD_DEFINITION" }

\* JavaScript's undefined and null where a token, node or location may stand,
\* and undefined where a token's value (a string) may stand.
undefined == [kind |-> "<undefined>"]
null == [kind |-> "<null>"]
noValue == "<undefined>"

\* ------------------------------------------------------------------------
\* The token stream (lexer.js is not part of the modelled source; this is
\* the contract of spec section 6.2)
\* ------------------------------------------------------------------------

\* A lexeme is what the source text holds: a kind and, for NAME, INT, FLOAT,
\* STRING and BLOCK_STRING, a value.
Lexeme(kind, value) == [kind |-> kind, value |-> value]

\* The number of source characters a lexeme occupies.
lexemeLength(x) ==
  CASE x.kind = TokenKind.STRING -> Len(x.value) + 2
    [] x.kind = TokenKind.BLOCK_STRING -> Len(x.value) + 6
    [] x.value # noValue -> Len(x.value)
    [] OTHER -> Len(x.kind)

\* The tokens toks of the first i - 1 lexemes of a source, followed by those of
\* the lexemes from the i-th on, which starts at offset start, and EOF at the
\* end of the text.  Lexemes are separated by one blank.  A token is
\* {kind, start, end, value}; idx is its position in the stream (the model's
\* rendering of the prev/next links).
RECURSIVE scan(_, _, _, _)
scan(src, i, start, toks) ==
  IF i > Len(src)
    THEN LET end == IF src = <<>> THEN 0 ELSE start - 1 IN
         Append(toks, [kind |-> TokenKind.EOF, value |-> noValue,
                       start |-> end, end |-> end, idx |-> i + 1])
    ELSE scan(src, i + 1, start + lexemeLength(src[i]) + 1,
              Append(toks, [kind |-> src[i].kind, value |-> src[i].value,
                            start |-> start, end |-> start + lexemeLength(src[i]),
                            idx |-> i + 1]))

\* All the tokens of a source: SOF, one token per lexeme, EOF.
tokenize(src) ==
  scan(src, 1, 0,
       <<[kind |-> TokenKind.SOF, value |-> noValue, start |-> 0, end |-> 0, idx |-> 1]>>)

\* len(source)
sourceLength(src) == tokenize(src)[Len(src) + 2].start

\* createLexer(source, options): the current token is SOF.  raised is the
\* history of the call: every error thrown so far, with the position of
\* lexer.token when it was thrown.
createLexer(src, options) ==
  [ tokens |-> tokenize(src), token |-> 1, lastToken |-> 1, options |-> options,
    raised |-> <<>> ]

\* lexer.token
token(lexer) == lexer.tokens[lexer.token]

\* lexer.lastToken
lastToken(lexer) == lexer.tokens[lexer.lastToken]

\* lexer.advance(): the current token becomes lastToken and the stream moves
\* to the next token; at EOF there is no next token and the stream stays.
advance(lexer) ==
  [ lexer EXCEPT !.lastToken = lexer.token,
                 !.token = IF token(lexer).kind = TokenKind.EOF
                             THEN lexer.token ELSE lexer.token + 1 ]

\* lexer.lookahead(): the token one step past the current one; state unchanged.
lookahead(lexer) ==
  IF token(lexer).kind = TokenKind.EOF THEN token(lexer) ELSE lexer.tokens[lexer.token + 1]

\* getTokenDesc(token) of lexer.js
getTokenDesc(tok) ==
  IF tok.value # noValue /\ tok.value # ""
    THEN tok.kind \o " \"" \o tok.value \o "\""
    ELSE tok.kind

\* syntaxError(source, position, description) of error/syntaxError.js
syntaxError(offset, description) == [offset |-> offset, message |-> description]

\* ------------------------------------------------------------------------
\* Outcomes of a production: a return value or a thrown error, each with the
\* lexer state it leaves behind.
\* ------------------------------------------------------------------------
Ok(lexer, val) == [ok |-> TRUE, lex |-> lexer, val |-> val]
Throw(lexer, error) ==
  [ ok |-> FALSE,
    lex |-> [lexer EXCEPT !.raised = Append(@, [error |-> error, token |-> lexer.token])],
    err |-> error ]

\* ------------------------------------------------------------------------
\* Core parsing utility functions (parser.js:1179-1309)
\* ------------------------------------------------------------------------

\* loc that gives a location whatever options.noLocation is
loc_always(lexer, startToken) ==
  [start |-> startToken.start, end |-> lastToken(lexer).end,
   startToken |-> startToken.idx, endToken |-> lexer.lastToken]

\* loc that ends a location at the current token, not at lastToken
loc_toCurrentToken(lexer, startToken) ==
  IF ~("noLocation" \in DOMAIN lexer.options /\ lexer.options.noLocation)
    THEN [start |-> startToken.start, end |-> token(lexer).end,
          startToken |-> startToken.idx, endToken |-> lexer.token]
    ELSE undefined

\* loc(lexer, startToken)
loc(lexer, startToken) ==
  IF ~("noLocation" \in DOMAIN lexer.options /\ lexer.options.noLocation)
    THEN [start |-> startToken.start, end |-> lastToken(lexer).end,
          startToken |-> startToken.idx, endToken |-> lexer.lastToken]
    ELSE undefined

\* peek(lexer, kind)
peek(lexer, kind) == token(lexer).kind = kind

\* skip that advances whether the kind matches or not
skip_always(lexer, kind) == Ok(advance(lexer), token(lexer).kind = kind)

\* skip(lexer, kind): Ok(lexer', match)
skip(lexer, kind) ==
  LET match == token(lexer).kind = kind IN
  IF match THEN Ok(advance(lexer), match) ELSE Ok(lexer, match)

\* expect(lexer, kind): Ok(lexer', token) or Throw
expect(lexer, kind) ==
  LET tok == token(lexer) IN
  IF tok.kind = kind
    THEN Ok(advance(lexer), tok)
    ELSE Throw(lexer, syntaxError(tok.start,
                 "Expected " \o kind \o ", found " \o getTokenDesc(tok)))

\* expectKeyword(lexer, value): Ok(lexer', token) or Throw
expectKeyword(lexer, value) ==
  LET tok == token(lexer) IN
  IF tok.kind = TokenKind.NAME /\ tok.value = value
    THEN Ok(advance(lexer), tok)
    ELSE Throw(lexer, syntaxError(tok.start,
                 "Expected \"" \o value \o "\", found " \o getTokenDesc(tok)))

\* unexpected(lexer, atToken): the error, not thrown; atToken may be undefined
unexpected(lexer, atToken) ==
  LET tok == IF atToken # undefined THEN atToken ELSE token(lexer) IN
  syntaxError(tok.start, "Unexpected " \o getTokenDesc(tok))

\* The productions call one another, and are handed to `any` and `many`, by
\* name: call(parseFn, args) applies the production named parseFn to args.
RECURSIVE call(_, _)

\* any_loop with error recovery: an item that throws is caught, the offending
\* token is dropped and the loop resumes
RECURSIVE any_loop_resume(_, _, _, _)
any_loop_resume(lexer, nodes, parseFn, closeKind) ==
  LET s == skip(lexer, closeKind) IN
  IF s.val THEN Ok(s.lex, nodes)
  ELSE LET n == call(parseFn, <<s.lex>>) IN
       IF ~n.ok
         THEN IF token(n.lex).kind = TokenKind.EOF THEN n
              ELSE any_loop_resume(advance(n.lex), nodes, parseFn, closeKind)
         ELSE any_loop_resume(n.lex, Append(nodes, n.val), parseFn, closeKind)

\* the loop of any and many: while (!skip(lexer, closeKind)) nodes.push(parseFn(lexer))
RECURSIVE any_loop(_, _, _, _)
any_loop(lexer, nodes, parseFn, closeKind) ==
  LET s == skip(lexer, closeKind) IN
  IF s.val THEN Ok(s.lex, nodes)
  ELSE LET n == call(parseFn, <<s.lex>>) IN
       IF ~n.ok THEN n
       ELSE any_loop(n.lex, Append(nodes, n.val), parseFn, closeKind)

\* any(lexer, openKind, parseFn, closeKind)
any(lexer, openKind, parseFn, closeKind) ==
  LET o == expect(lexer, openKind) IN
  IF ~o.ok THEN o
  ELSE any_loop(o.lex, <<>>, parseFn, closeKind)

\* many that takes an empty list, as any does
many_mayBeEmpty(lexer, openKind, parseFn, closeKind) ==
  any(lexer, openKind, parseFn, closeKind)

\* many(lexer, openKind, parseFn, closeKind)
many(lexer, openKind, parseFn, closeKind) ==
  LET o == expect(lexer, openKind) IN
  IF ~o.ok THEN o
  ELSE LET first == call(parseFn, <<o.lex>>) IN
       IF ~first.ok THEN first
       ELSE any_loop(first.lex, <<first.val>>, parseFn, closeKind)

\* parseName(lexer)
parseName(lexer) ==
  LET t == expect(lexer, TokenKind.NAME) IN
  IF ~t.ok THEN t
  ELSE Ok(t.lex, [kind |-> Kind_NAME, value |-> t.val.value, loc |-> loc(t.lex, t.val)])


\* ------------------------------------------------------------------------
\* Values (parser.js:499-637)
\* ------------------------------------------------------------------------
RECURSIVE parseValueLiteral(_, _)

\* parseVariable(lexer)
parseVariable(lexer) ==
  LET start == token(lexer)
      d == expect(lexer, TokenKind.DOLLAR) IN
  IF ~d.ok THEN d
  ELSE LET name == call("parseName", <<d.lex>>) IN
       IF ~name.ok THEN name
       ELSE Ok(name.lex, [kind |-> Kind_VARIABLE, name |-> name.val,
                          loc |-> loc(name.lex, start)])

\* parseStringLiteral(lexer)
parseStringLiteral(lexer) ==
  LET tok == token(lexer)
      lexer1 == advance(lexer) IN
  Ok(lexer1, [kind |-> Kind_STRING, value |-> tok.value,
              block |-> (tok.kind = TokenKind.BLOCK_STRING),
              loc |-> loc(lexer1, tok)])

\* parseConstValue(lexer)
parseConstValue(lexer) == call("parseValueLiteral", <<lexer, TRUE>>)

\* parseValueValue(lexer)
parseValueValue(lexer) == call("parseValueLiteral", <<lexer, FALSE>>)

\* parseList that parses its items as non-const values whatever isConst is
parseList_nonConstItems(lexer, isConst) ==
  LET start == token(lexer)
      values == any(lexer, TokenKind.BRACKET_L, "parseValueValue", TokenKind.BRACKET_R) IN
  IF ~values.ok THEN values
  ELSE Ok(values.lex, [kind |-> Kind_LIST, values |-> values.val,
                       loc |-> loc(values.lex, start)])

\* parseList(lexer, isConst)
parseList(lexer, isConst) ==
  LET start == token(lexer)
      item == IF isConst THEN "parseConstValue" ELSE "parseValueValue"
      values == any(lexer, TokenKind.BRACKET_L, item, TokenKind.BRACKET_R) IN
  IF ~values.ok THEN values
  ELSE Ok(values.lex, [kind |-> Kind_LIST, values |-> values.val,
                       loc |-> loc(values.lex, start)])

\* parseObjectField(lexer, isConst)
parseObjectField(lexer, isConst) ==
  LET start == token(lexer)
      name == call("parseName", <<lexer>>) IN
  IF ~name.ok THEN name
  ELSE LET c == expect(name.lex, TokenKind.COLON) IN
       IF ~c.ok THEN c
       ELSE LET value == call("parseValueLiteral", <<c.lex, isConst>>) IN
            IF ~value.ok THEN value
            ELSE Ok(value.lex, [kind |-> Kind_OBJECT_FIELD, name |-> name.val,
                                value |-> value.val, loc |-> loc(value.lex, start)])

\* the loop of parseObject that ends at <EOF> as it does at `}`
RECURSIVE parseObject_loop_endsAtEOF(_, _, _)
parseObject_loop_endsAtEOF(lexer, fields, isConst) ==
  LET s == skip(lexer, TokenKind.BRACE_R) IN
  IF s.val \/ peek(lexer, TokenKind.EOF) THEN Ok(s.lex, fields)
  ELSE LET f == call("parseObjectField", <<s.lex, isConst>>) IN
       IF ~f.ok THEN f
       ELSE parseObject_loop_endsAtEOF(f.lex, Append(fields, f.val), isConst)

\* the loop of parseObject: while (!skip(lexer, BRACE_R)) fields.push(...)
RECURSIVE parseObject_loop(_, _, _)
parseObject_loop(lexer, fields, isConst) ==
  LET s == skip(lexer, TokenKind.BRACE_R) IN
  IF s.val THEN Ok(s.lex, fields)
  ELSE LET f == call("parseObjectField", <<s.lex, isConst>>) IN
       IF ~f.ok THEN f
       ELSE parseObject_loop(f.lex, Append(fields, f.val), isConst)

\* parseObject(lexer, isConst)
parseObject(lexer, isConst) ==
  LET start == token(lexer)
      o == expect(lexer, TokenKind.BRACE_L) IN
  IF ~o.ok THEN o
  ELSE LET fields == parseObject_loop(o.lex, <<>>, isConst) IN
       IF ~fields.ok THEN fields
       ELSE Ok(fields.lex, [kind |-> Kind_OBJECT, fields |-> fields.val,
                            loc |-> loc(fields.lex, start)])

\* parseValueLiteral(lexer, isConst)
parseValueLiteral(lexer, isConst) ==
  LET tok == token(lexer)
      lexer1 == advance(lexer) IN
  CASE tok.kind = TokenKind.BRACKET_L -> call("parseList", <<lexer, isConst>>)
    [] tok.kind = TokenKind.BRACE_L -> call("parseObject", <<lexer, isConst>>)
    [] tok.kind = TokenKind.INT ->
         Ok(lexer1, [kind |-> Kind_INT, value |-> tok.value, loc |-> loc(lexer1, tok)])
    [] tok.kind = TokenKind.FLOAT ->
         Ok(lexer1, [kind |-> Kind_FLOAT, value |-> tok.value, loc |-> loc(lexer1, tok)])
    [] tok.kind \in {TokenKind.STRING, TokenKind.BLOCK_STRING} ->
         call("parseStringLiteral", <<lexer>>)
    [] tok.kind = TokenKind.NAME ->
         IF tok.value = "true" \/ tok.value = "false"
           THEN Ok(lexer1, [kind |-> Kind_BOOLEAN, value |-> (tok.value = "true"),
                            loc |-> loc(lexer1, tok)])
         ELSE IF tok.value = "null"
           THEN Ok(lexer1, [kind |-> Kind_NULL, loc |-> loc(lexer1, tok)])
         ELSE Ok(lexer1, [kind |-> Kind_ENUM, value |-> tok.value,
                          loc |-> loc(lexer1, tok)])
    [] tok.kind = TokenKind.DOLLAR ->
         IF ~isConst THEN call("parseVariable", <<lexer>>)
         ELSE Throw(lexer, unexpected(lexer, undefined))
    [] OTHER -> Throw(lexer, unexpected(lexer, undefined))

\* ------------------------------------------------------------------------
\* Types (parser.js:669-711)
\* ------------------------------------------------------------------------

\* parseNamedType(lexer)
parseNamedType(lexer) ==
  LET start == token(lexer)
      name == call("parseName", <<lexer>>) IN
  IF ~name.ok THEN name
  ELSE Ok(name.lex, [kind |-> Kind_NAMED_TYPE, name |-> name.val,
                     loc |-> loc(name.lex, start)])

\* the tail of parseTypeReference that takes a second `!` and wraps again
parseTypeReference_bang_twice(lexer, start, type) ==
  LET b == skip(lexer, TokenKind.BANG)
      b2 == skip(b.lex, TokenKind.BANG)
      nonNull == [kind |-> Kind_NON_NULL_TYPE, type |-> type, loc |-> loc(b.lex, start)] IN
  IF b.val
    THEN IF b2.val
           THEN Ok(b2.lex, [kind |-> Kind_NON_NULL_TYPE, type |-> nonNull,
                            loc |-> loc(b2.lex, start)])
           ELSE Ok(b.lex, nonNull)
    ELSE Ok(b.lex, type)

\* the tail of parseTypeReference: if (skip(lexer, BANG)) wrap in NonNullType
parseTypeReference_bang(lexer, start, type) ==
  LET b == skip(lexer, TokenKind.BANG) IN
  IF b.val
    THEN Ok(b.lex, [kind |-> Kind_NON_NULL_TYPE, type |-> type,
                    loc |-> loc(b.lex, start)])
    ELSE Ok(b.lex, type)

\* parseTypeReference(lexer)
RECURSIVE parseTypeReference(_)
parseTypeReference(lexer) ==
  LET start == token(lexer)
      l == skip(lexer, TokenKind.BRACKET_L) IN
  IF l.val
    THEN LET inner == call("parseTypeReference", <<l.lex>>) IN
         IF ~inner.ok THEN inner
         ELSE LET r == expect(inner.lex, TokenKind.BRACKET_R) IN
              IF ~r.ok THEN r
              ELSE parseTypeReference_bang(r.lex, start,
                     [kind |-> Kind_LIST_TYPE, type |-> inner.val,
                      loc |-> loc(r.lex, start)])
    ELSE LET named == call("parseNamedType", <<l.lex>>) IN
         IF ~named.ok THEN named
         ELSE parseTypeReference_bang(named.lex, start, named.val)

\* ------------------------------------------------------------------------
\* Directives and arguments (parser.js:398-432, 639-667)
\* ------------------------------------------------------------------------

\* parseArgument(lexer)
parseArgument(lexer) ==
  LET start == token(lexer)
      name == call("parseName", <<lexer>>) IN
  IF ~name.ok THEN name
  ELSE LET c == expect(name.lex, TokenKind.COLON) IN
       IF ~c.ok THEN c
       ELSE LET value == call("parseValueLiteral", <<c.lex, FALSE>>) IN
            IF ~value.ok THEN value
            ELSE Ok(value.lex, [kind |-> Kind_ARGUMENT, name |-> name.val,
                                value |-> value.val, loc |-> loc(value.lex, start)])

\* parseConstArgument(lexer)
parseConstArgument(lexer) ==
  LET start == token(lexer)
      name == call("parseName", <<lexer>>) IN
  IF ~name.ok THEN name
  ELSE LET c == expect(name.lex, TokenKind.COLON) IN
       IF ~c.ok THEN c
       ELSE LET value == call("parseConstValue", <<c.lex>>) IN
            IF ~value.ok THEN value
            ELSE Ok(value.lex, [kind |-> Kind_ARGUMENT, name |-> name.val,
                                value |-> value.val, loc |-> loc(value.lex, start)])

\* parseArguments that parses non-const arguments whatever isConst is
parseArguments_nonConst(lexer, isConst) ==
  IF peek(lexer, TokenKind.PAREN_L)
    THEN many(lexer, TokenKind.PAREN_L, "parseArgument", TokenKind.PAREN_R)
    ELSE Ok(lexer, <<>>)

\* parseArguments(lexer, isConst)
parseArguments(lexer, isConst) ==
  LET item == IF isConst THEN "parseConstArgument" ELSE "parseArgument" IN
  IF peek(lexer, TokenKind.PAREN_L)
    THEN many(lexer, TokenKind.PAREN_L, item, TokenKind.PAREN_R)
    ELSE Ok(lexer, <<>>)

\* parseDirective(lexer, isConst)
parseDirective(lexer, isConst) ==
  LET start == token(lexer)
      a == expect(lexer, TokenKind.AT) IN
  IF ~a.ok THEN a
  ELSE LET name == call("parseName", <<a.lex>>) IN
       IF ~name.ok THEN name
       ELSE LET args == call("parseArguments", <<name.lex, isConst>>) IN
            IF ~args.ok THEN args
            ELSE Ok(args.lex, [kind |-> Kind_DIRECTIVE, name |-> name.val,
                               arguments |-> args.val, loc |-> loc(args.lex, start)])

\* the loop of parseDirectives: while (peek(lexer, AT)) directives.push(...)
RECURSIVE parseDirectives_loop(_, _, _)
parseDirectives_loop(lexer, directives, isConst) ==
  IF peek(lexer, TokenKind.AT)
    THEN LET d == call("parseDirective", <<lexer, isConst>>) IN
         IF ~d.ok THEN d
         ELSE parseDirectives_loop(d.lex, Append(directives, d.val), isConst)
    ELSE Ok(lexer, directives)

\* parseDirectives(lexer, isConst)
parseDirectives(lexer, isConst) == parseDirectives_loop(lexer, <<>>, isConst)

\* ------------------------------------------------------------------------
\* Operations, selections and fragments (parser.js:247-497)
\* ------------------------------------------------------------------------

\* parseOperationType(lexer)
parseOperationType(lexer) ==
  LET operationToken == expect(lexer, TokenKind.NAME) IN
  IF ~operationToken.ok THEN operationToken
  ELSE IF operationToken.val.value \in {"query", "mutation", "subscription"}
    THEN Ok(operationToken.lex, operationToken.val.value)
    ELSE Throw(operationToken.lex, unexpected(operationToken.lex, operationToken.val))

\* parseVariableDefinition(lexer)
parseVariableDefinition(lexer) ==
  LET start == token(lexer)
      variable == call("parseVariable", <<lexer>>) IN
  IF ~variable.ok THEN variable
  ELSE LET c == expect(variable.lex, TokenKind.COLON) IN
  IF ~c.ok THEN c
  ELSE LET type == call("parseTypeReference", <<c.lex>>) IN
  IF ~type.ok THEN type
  ELSE LET e == skip(type.lex, TokenKind.EQUALS)
           defaultValue == IF e.val THEN call("parseValueLiteral", <<e.lex, TRUE>>)
                           ELSE Ok(e.lex, null) IN
  IF ~defaultValue.ok THEN defaultValue
  ELSE Ok(defaultValue.lex,
          [kind |-> Kind_VARIABLE_DEFINITION, variable |-> variable.val,
           type |-> type.val, defaultValue |-> defaultValue.val,
           loc |-> loc(defaultValue.lex, start)])

\* parseVariableDefinitions(lexer)
parseVariableDefinitions(lexer) ==
  IF peek(lexer, TokenKind.PAREN_L)
    THEN many(lexer, TokenKind.PAREN_L, "parseVariableDefinition", TokenKind.PAREN_R)
    ELSE Ok(lexer, <<>>)

\* parseSelectionSet(lexer)
parseSelectionSet(lexer) ==
  LET start == token(lexer)
      selections == many(lexer, TokenKind.BRACE_L, "parseSelection", TokenKind.BRACE_R) IN
  IF ~selections.ok THEN selections
  ELSE Ok(selections.lex, [kind |-> Kind_SELECTION_SET, selections |-> selections.val,
                           loc |-> loc(selections.lex, start)])

\* the tail of parseField, once alias and name are known
parseField_rest(lexer, start, alias, name) ==
  LET args == call("parseArguments", <<lexer, FALSE>>) IN
  IF ~args.ok THEN args
  ELSE LET directives == call("parseDirectives", <<args.lex, FALSE>>) IN
  IF ~directives.ok THEN directives
  ELSE LET selectionSet == IF peek(directives.lex, TokenKind.BRACE_L)
                             THEN call("parseSelectionSet", <<directives.lex>>)
                             ELSE Ok(directives.lex, null) IN
  IF ~selectionSet.ok THEN selectionSet
  ELSE Ok(selectionSet.lex,
          [kind |-> Kind_FIELD, alias |-> alias, name |-> name,
           arguments |-> args.val, directives |-> directives.val,
           selectionSet |-> selectionSet.val, loc |-> loc(selectionSet.lex, start)])

\* parseField(lexer)
parseField(lexer) ==
  LET start == token(lexer)
      nameOrAlias == call("parseName", <<lexer>>) IN
  IF ~nameOrAlias.ok THEN nameOrAlias
  ELSE LET c == skip(nameOrAlias.lex, TokenKind.COLON) IN
       IF c.val
         THEN LET name == call("parseName", <<c.lex>>) IN
              IF ~name.ok THEN name
              ELSE parseField_rest(name.lex, start, nameOrAlias.val, name.val)
         ELSE parseField_rest(c.lex, start, null, nameOrAlias.val)

\* parseFragmentName that takes any name
parseFragmentName_anyName(lexer) == call("parseName", <<lexer>>)

\* parseFragmentName(lexer)
parseFragmentName(lexer) ==
  IF token(lexer).value = "on"
    THEN Throw(lexer, unexpected(lexer, undefined))
    ELSE call("parseName", <<lexer>>)

\* the tail of parseFragment for an inline fragment, once typeCondition is known
parseFragment_inline(lexer, start, typeCondition) ==
  LET directives == call("parseDirectives", <<lexer, FALSE>>) IN
  IF ~directives.ok THEN directives
  ELSE LET selectionSet == call("parseSelectionSet", <<directives.lex>>) IN
  IF ~selectionSet.ok THEN selectionSet
  ELSE Ok(selectionSet.lex,
          [kind |-> Kind_INLINE_FRAGMENT, typeCondition |-> typeCondition,
           directives |-> directives.val, selectionSet |-> selectionSet.val,
           loc |-> loc(selectionSet.lex, start)])

\* parseFragment(lexer)
parseFragment(lexer) ==
  LET start == token(lexer)
      s == expect(lexer, TokenKind.SPREAD) IN
  IF ~s.ok THEN s
  ELSE IF peek(s.lex, TokenKind.NAME) /\ token(s.lex).value # "on"
    THEN LET name == call("parseFragmentName", <<s.lex>>) IN
         IF ~name.ok THEN name
         ELSE LET directives == call("parseDirectives", <<name.lex, FALSE>>) IN
         IF ~directives.ok THEN directives
         ELSE Ok(directives.lex,
                 [kind |-> Kind_FRAGMENT_SPREAD, name |-> name.val,
                  directives |-> directives.val, loc |-> loc(directives.lex, start)])
  ELSE IF token(s.lex).value = "on"
    THEN LET typeCondition == call("parseNamedType", <<advance(s.lex)>>) IN
         IF ~typeCondition.ok THEN typeCondition
         ELSE parseFragment_inline(typeCondition.lex, start, typeCondition.val)
  ELSE parseFragment_inline(s.lex, start, null)

\* parseSelection(lexer)
parseSelection(lexer) ==
  IF peek(lexer, TokenKind.SPREAD)
    THEN call("parseFragment", <<lexer>>)
    ELSE call("parseField", <<lexer>>)

\* parseOperationDefinition(lexer)
parseOperationDefinition(lexer) ==
  LET start == token(lexer) IN
  IF peek(lexer, TokenKind.BRACE_L)
    THEN LET selectionSet == call("parseSelectionSet", <<lexer>>) IN
         IF ~selectionSet.ok THEN selectionSet
         ELSE Ok(selectionSet.lex,
                 [kind |-> Kind_OPERATION_DEFINITION, operation |-> "query",
                  name |-> null, variableDefinitions |-> <<>>, directives |-> <<>>,
                  selectionSet |-> selectionSet.val,
                  loc |-> loc(selectionSet.lex, start)])
  ELSE LET operation == call("parseOperationType", <<lexer>>) IN
  IF ~operation.ok THEN operation
  ELSE LET name == IF peek(operation.lex, TokenKind.NAME)
                     THEN call("parseName", <<operation.lex>>) ELSE Ok(operation.lex, null) IN
  IF ~name.ok THEN name
  ELSE LET variableDefinitions == call("parseVariableDefinitions", <<name.lex>>) IN
  IF ~variableDefinitions.ok THEN variableDefinitions
  ELSE LET directives == call("parseDirectives", <<variableDefinitions.lex, FALSE>>) IN
  IF ~directives.ok THEN directives
  ELSE LET selectionSet == call("parseSelectionSet", <<directives.lex>>) IN
  IF ~selectionSet.ok THEN selectionSet
  ELSE Ok(selectionSet.lex,
          [kind |-> Kind_OPERATION_DEFINITION, operation |-> operation.val,
           name |-> name.val, variableDefinitions |-> variableDefinitions.val,
           directives |-> directives.val, selectionSet |-> selectionSet.val,
           loc |-> loc(selectionSet.lex, start)])

\* parseFragmentDefinition(lexer)
parseFragmentDefinition(lexer) ==
  LET start == token(lexer)
      k == expectKeyword(lexer, "fragment") IN
  IF ~k.ok THEN k
  ELSE LET name == call("parseFragmentName", <<k.lex>>) IN
  IF ~name.ok THEN name
  ELSE LET on == expectKeyword(name.lex, "on") IN
  IF ~on.ok THEN on
  ELSE LET typeCondition == call("parseNamedType", <<on.lex>>) IN
  IF ~typeCondition.ok THEN typeCondition
  ELSE LET directives == call("parseDirectives", <<typeCondition.lex, FALSE>>) IN
  IF ~directives.ok THEN directives
  ELSE LET selectionSet == call("parseSelectionSet", <<directives.lex>>) IN
  IF ~selectionSet.ok THEN selectionSet
  ELSE Ok(selectionSet.lex,
          [kind |-> Kind_FRAGMENT_DEFINITION, name |-> name.val,
           typeCondition |-> typeCondition.val, directives |-> directives.val,
           selectionSet |-> selectionSet.val, loc |-> loc(selectionSet.lex, start)])

\* ------------------------------------------------------------------------
\* Type system definitions (parser.js:713-1177)
\* ------------------------------------------------------------------------

\* peekDescription that takes a STRING token only for a description
peekDescription_stringOnly(lexer) == peek(lexer, TokenKind.STRING)

\* peekDescription(lexer)
peekDescription(lexer) ==
  peek(lexer, TokenKind.STRING) \/ peek(lexer, TokenKind.BLOCK_STRING)

\* parseDescription(lexer): the node, or undefined when there is none
parseDescription(lexer) ==
  IF peekDescription(lexer) THEN call("parseStringLiteral", <<lexer>>) ELSE Ok(lexer, undefined)

\* parseOperationTypeDefinition(lexer)
parseOperationTypeDefinition(lexer) ==
  LET start == token(lexer)
      operation == call("parseOperationType", <<lexer>>) IN
  IF ~operation.ok THEN operation
  ELSE LET c == expect(operation.lex, TokenKind.COLON) IN
  IF ~c.ok THEN c
  ELSE LET type == call("parseNamedType", <<c.lex>>) IN
  IF ~type.ok THEN type
  ELSE Ok(type.lex, [kind |-> Kind_OPERATION_TYPE_DEFINITION,
                     operation |-> operation.val, type |-> type.val,
                     loc |-> loc(type.lex, start)])

\* parseSchemaDefinition(lexer)
parseSchemaDefinition(lexer) ==
  LET start == token(lexer)
      k == expectKeyword(lexer, "schema") IN
  IF ~k.ok THEN k
  ELSE LET directives == call("parseDirectives", <<k.lex, TRUE>>) IN
  IF ~directives.ok THEN directives
  ELSE LET operationTypes == many(directives.lex, TokenKind.BRACE_L,
                                  "parseOperationTypeDefinition", TokenKind.BRACE_R) IN
  IF ~operationTypes.ok THEN operationTypes
  ELSE Ok(operationTypes.lex,
          [kind |-> Kind_SCHEMA_DEFINITION, directives |-> directives.val,
           operationTypes |-> operationTypes.val,
           loc |-> loc(operationTypes.lex, start)])

\* parseScalarTypeDefinition(lexer)
parseScalarTypeDefinition(lexer) ==
  LET start == token(lexer)
      description == call("parseDescription", <<lexer>>)
      k == expectKeyword(description.lex, "scalar") IN
  IF ~k.ok THEN k
  ELSE LET name == call("parseName", <<k.lex>>) IN
  IF ~name.ok THEN name
  ELSE LET directives == call("parseDirectives", <<name.lex, TRUE>>) IN
  IF ~directives.ok THEN directives
  ELSE Ok(directives.lex,
          [kind |-> Kind_SCALAR_TYPE_DEFINITION, description |-> description.val,
           name |-> name.val, directives |-> directives.val,
           loc |-> loc(directives.lex, start)])

\* the loop of parseImplementsInterfaces:
\* do { types.push(parseNamedType(lexer)) } while (peek(lexer, NAME))
RECURSIVE parseImplementsInterfaces_loop(_, _)
parseImplementsInterfaces_loop(lexer, types) ==
  LET t == call("parseNamedType", <<lexer>>) IN
  IF ~t.ok THEN t
  ELSE IF peek(t.lex, TokenKind.NAME)
    THEN parseImplementsInterfaces_loop(t.lex, Append(types, t.val))
    ELSE Ok(t.lex, Append(types, t.val))

\* parseImplementsInterfaces(lexer)
parseImplementsInterfaces(lexer) ==
  IF token(lexer).value = "implements"
    THEN parseImplementsInterfaces_loop(advance(lexer), <<>>)
    ELSE Ok(lexer, <<>>)

\* parseInputValueDef(lexer)
parseInputValueDef(lexer) ==
  LET start == token(lexer)
      description == call("parseDescription", <<lexer>>)
      name == call("parseName", <<description.lex>>) IN
  IF ~name.ok THEN name
  ELSE LET c == expect(name.lex, TokenKind.COLON) IN
  IF ~c.ok THEN c
  ELSE LET type == call("parseTypeReference", <<c.lex>>) IN
  IF ~type.ok THEN type
  ELSE LET e == skip(type.lex, TokenKind.EQUALS)
           defaultValue == IF e.val THEN call("parseConstValue", <<e.lex>>) ELSE Ok(e.lex, null) IN
  IF ~defaultValue.ok THEN defaultValue
  ELSE LET directives == call("parseDirectives", <<defaultValue.lex, TRUE>>) IN
  IF ~directives.ok THEN directives
  ELSE Ok(directives.lex,
          [kind |-> Kind_INPUT_VALUE_DEFINITION, description |-> description.val,
           name |-> name.val, type |-> type.val, defaultValue |-> defaultValue.val,
           directives |-> directives.val, loc |-> loc(directives.lex, start)])

\* parseArgumentDefs(lexer)
parseArgumentDefs(lexer) ==
  IF ~peek(lexer, TokenKind.PAREN_L)
    THEN Ok(lexer, <<>>)
    ELSE many(lexer, TokenKind.PAREN_L, "parseInputValueDef", TokenKind.PAREN_R)

\* parseFieldDefinition(lexer)
parseFieldDefinition(lexer) ==
  LET start == token(lexer)
      description == call("parseDescription", <<lexer>>)
      name == call("parseName", <<description.lex>>) IN
  IF ~name.ok THEN name
  ELSE LET args == call("parseArgumentDefs", <<name.lex>>) IN
  IF ~args.ok THEN args
  ELSE LET c == expect(args.lex, TokenKind.COLON) IN
  IF ~c.ok THEN c
  ELSE LET type == call("parseTypeReference", <<c.lex>>) IN
  IF ~type.ok THEN type
  ELSE LET directives == call("parseDirectives", <<type.lex, TRUE>>) IN
  IF ~directives.ok THEN directives
  ELSE Ok(directives.lex,
          [kind |-> Kind_FIELD_DEFINITION, description |-> description.val,
           name |-> name.val, arguments |-> args.val, type |-> type.val,
           directives |-> directives.val, loc |-> loc(directives.lex, start)])

\* parseFieldDefinitions(lexer)
parseFieldDefinitions(lexer) ==
  many(lexer, TokenKind.BRACE_L, "parseFieldDefinition", TokenKind.BRACE_R)

\* parseObjectTypeDefinition(lexer)
parseObjectTypeDefinition(lexer) ==
  LET start == token(lexer)
      description == call("parseDescription", <<lexer>>)
      k == expectKeyword(description.lex, "type") IN
  IF ~k.ok THEN k
  ELSE LET name == call("parseName", <<k.lex>>) IN
  IF ~name.ok THEN name
  ELSE LET interfaces == call("parseImplementsInterfaces", <<name.lex>>) IN
  IF ~interfaces.ok THEN interfaces
  ELSE LET directives == call("parseDirectives", <<interfaces.lex, TRUE>>) IN
  IF ~directives.ok THEN directives
  ELSE LET fields == call("parseFieldDefinitions", <<directives.lex>>) IN
  IF ~fields.ok THEN fields
  ELSE Ok(fields.lex,
          [kind |-> Kind_OBJECT_TYPE_DEFINITION, description |-> description.val,
           name |-> name.val, interfaces |-> interfaces.val,
           directives |-> directives.val, fields |-> fields.val,
           loc |-> loc(fields.lex, start)])

\* parseInterfaceTypeDefinition(lexer)
parseInterfaceTypeDefinition(lexer) ==
  LET start == token(lexer)
      description == call("parseDescription", <<lexer>>)
      k == expectKeyword(description.lex, "interface") IN
  IF ~k.ok THEN k
  ELSE LET name == call("parseName", <<k.lex>>) IN
  IF ~name.ok THEN name
  ELSE LET directives == call("parseDirectives", <<name.lex, TRUE>>) IN
  IF ~directives.ok THEN directives
  ELSE LET fields == call("parseFieldDefinitions", <<directives.lex>>) IN
  IF ~fields.ok THEN fields
  ELSE Ok(fields.lex,
          [kind |-> Kind_INTERFACE_TYPE_DEFINITION, description |-> description.val,
           name |-> name.val, directives |-> directives.val, fields |-> fields.val,
           loc |-> loc(fields.lex, start)])

\* the loop of parseUnionMembers:
\* do { members.push(parseNamedType(lexer)) } while (skip(lexer, PIPE))
RECURSIVE parseUnionMembers_loop(_, _)
parseUnionMembers_loop(lexer, members) ==
  LET m == call("parseNamedType", <<lexer>>) IN
  IF ~m.ok THEN m
  ELSE LET p == skip(m.lex, TokenKind.PIPE) IN
       IF p.val THEN parseUnionMembers_loop(p.lex, Append(members, m.val))
       ELSE Ok(p.lex, Append(members, m.val))

\* parseUnionMembers(lexer)
parseUnionMembers(lexer) ==
  parseUnionMembers_loop(skip(lexer, TokenKind.PIPE).lex, <<>>)

\* parseUnionTypeDefinition(lexer)
parseUnionTypeDefinition(lexer) ==
  LET start == token(lexer)
      description == call("parseDescription", <<lexer>>)
      k == expectKeyword(description.lex, "union") IN
  IF ~k.ok THEN k
  ELSE LET name == call("parseName", <<k.lex>>) IN
  IF ~name.ok THEN name
  ELSE LET directives == call("parseDirectives", <<name.lex, TRUE>>) IN
  IF ~directives.ok THEN directives
  ELSE LET e == expect(directives.lex, TokenKind.EQUALS) IN
  IF ~e.ok THEN e
  ELSE LET types == call("parseUnionMembers", <<e.lex>>) IN
  IF ~types.ok THEN types
  ELSE Ok(types.lex,
          [kind |-> Kind_UNION_TYPE_DEFINITION, description |-> description.val,
           name |-> name.val, directives |-> directives.val, types |-> types.val,
           loc |-> loc(types.lex, start)])

\* parseEnumValueDefinition(lexer)
parseEnumValueDefinition(lexer) ==
  LET start == token(lexer)
      description == call("parseDescription", <<lexer>>)
      name == call("parseName", <<description.lex>>) IN
  IF ~name.ok THEN name
  ELSE LET directives == call("parseDirectives", <<name.lex, TRUE>>) IN
  IF ~directives.ok THEN directives
  ELSE Ok(directives.lex,
          [kind |-> Kind_ENUM_VALUE_DEFINITION, description |-> description.val,
           name |-> name.val, directives |-> directives.val,
           loc |-> loc(directives.lex, start)])

\* parseEnumTypeDefinition(lexer)
parseEnumTypeDefinition(lexer) ==
  LET start == token(lexer)
      description == call("parseDescription", <<lexer>>)
      k == expectKeyword(description.lex, "enum") IN
  IF ~k.ok THEN k
  ELSE LET name == call("parseName", <<k.lex>>) IN
  IF ~name.ok THEN name
  ELSE LET directives == call("parseDirectives", <<name.lex, TRUE>>) IN
  IF ~directives.ok THEN directives
  ELSE LET values == many(directives.lex, TokenKind.BRACE_L,
                          "parseEnumValueDefinition", TokenKind.BRACE_R) IN
  IF ~values.ok THEN values
  ELSE Ok(values.lex,
          [kind |-> Kind_ENUM_TYPE_DEFINITION, description |-> description.val,
           name |-> name.val, directives |-> directives.val, values |-> values.val,
           loc |-> loc(values.lex, start)])

\* parseInputObjectTypeDefinition(lexer)
parseInputObjectTypeDefinition(lexer) ==
  LET start == token(lexer)
      description == call("parseDescription", <<lexer>>)
      k == expectKeyword(description.lex, "input") IN
  IF ~k.ok THEN k
  ELSE LET name == call("parseName", <<k.lex>>) IN
  IF ~name.ok THEN name
  ELSE LET directives == call("parseDirectives", <<name.lex, TRUE>>) IN
  IF ~directives.ok THEN directives
  ELSE LET fields == many(directives.lex, TokenKind.BRACE_L,
                          "parseInputValueDef", TokenKind.BRACE_R) IN
  IF ~fields.ok THEN fields
  ELSE Ok(fields.lex,
          [kind |-> Kind_INPUT_OBJECT_TYPE_DEFINITION, description |-> description.val,
           name |-> name.val, directives |-> directives.val, fields |-> fields.val,
           loc |-> loc(fields.lex, start)])

\* parseObjectTypeExtension(lexer)
parseObjectTypeExtension(lexer) ==
  LET start == token(lexer)
      k1 == expectKeyword(lexer, "extend") IN
  IF ~k1.ok THEN k1
  ELSE LET k2 == expectKeyword(k1.lex, "type") IN
  IF ~k2.ok THEN k2
  ELSE LET name == call("parseName", <<k2.lex>>) IN
  IF ~name.ok THEN name
  ELSE LET interfaces == call("parseImplementsInterfaces", <<name.lex>>) IN
  IF ~interfaces.ok THEN interfaces
  ELSE LET directives == call("parseDirectives", <<interfaces.lex, TRUE>>) IN
  IF ~directives.ok THEN directives
  ELSE LET fields == IF peek(directives.lex, TokenKind.BRACE_L)
                       THEN call("parseFieldDefinitions", <<directives.lex>>)
                       ELSE Ok(directives.lex, <<>>) IN
  IF ~fields.ok THEN fields
  ELSE IF Len(interfaces.val) = 0 /\ Len(directives.val) = 0 /\ Len(fields.val) = 0
    THEN Throw(fields.lex, unexpected(fields.lex, undefined))
  ELSE Ok(fields.lex,
          [kind |-> Kind_OBJECT_TYPE_EXTENSION, name |-> name.val,
           interfaces |-> interfaces.val, directives |-> directives.val,
           fields |-> fields.val, loc |-> loc(fields.lex, start)])

\* parseTypeExtension(lexer)
parseTypeExtension(lexer) ==
  LET keywordToken == lookahead(lexer) IN
  IF keywordToken.kind = TokenKind.NAME /\ keywordToken.value = "type"
    THEN call("parseObjectTypeExtension", <<lexer>>)
    ELSE Throw(lexer, unexpected(lexer, keywordToken))

\* parseDirectiveLocation that reports a name outside the set at the current
\* token, which is the token after the name
parseDirectiveLocation_atCurrent(lexer) ==
  LET name == call("parseName", <<lexer>>) IN
  IF ~name.ok THEN name
  ELSE IF name.val.value \in DirectiveLocation
    THEN name
    ELSE Throw(name.lex, unexpected(name.lex, undefined))

\* parseDirectiveLocation(lexer)
parseDirectiveLocation(lexer) ==
  LET start == token(lexer)
      name == call("parseName", <<lexer>>) IN
  IF ~name.ok THEN name
  ELSE IF name.val.value \in DirectiveLocation
    THEN name
    ELSE Throw(name.lex, unexpected(name.lex, start))

\* the loop of parseDirectiveLocations:
\* do { locations.push(parseDirectiveLocation(lexer)) } while (skip(lexer, PIPE))
RECURSIVE parseDirectiveLocations_loop(_, _)
parseDirectiveLocations_loop(lexer, locations) ==
  LET l == call("parseDirectiveLocation", <<lexer>>) IN
  IF ~l.ok THEN l
  ELSE LET p == skip(l.lex, TokenKind.PIPE) IN
       IF p.val THEN parseDirectiveLocations_loop(p.lex, Append(locations, l.val))
       ELSE Ok(p.lex, Append(locations, l.val))

\* parseDirectiveLocations(lexer)
parseDirectiveLocations(lexer) ==
  parseDirectiveLocations_loop(skip(lexer, TokenKind.PIPE).lex, <<>>)

\* parseDirectiveDefinition(lexer)
parseDirectiveDefinition(lexer) ==
  LET start == token(lexer)
      description == call("parseDescription", <<lexer>>)
      k == expectKeyword(description.lex, "directive") IN
  IF ~k.ok THEN k
  ELSE LET a == expect(k.lex, TokenKind.AT) IN
  IF ~a.ok THEN a
  ELSE LET name == call("parseName", <<a.lex>>) IN
  IF ~name.ok THEN name
  ELSE LET args == call("parseArgumentDefs", <<name.lex>>) IN
  IF ~args.ok THEN args
  ELSE LET on == expectKeyword(args.lex, "on") IN
  IF ~on.ok THEN on
  ELSE LET locations == call("parseDirectiveLocations", <<on.lex>>) IN
  IF ~locations.ok THEN locations
  ELSE Ok(locations.lex,
          [kind |-> Kind_DIRECTIVE_DEFINITION, description |-> description.val,
           name |-> name.val, arguments |-> args.val, locations |-> locations.val,
           loc |-> loc(locations.lex, start)])

\* parseTypeSystemDefinition(lexer)
parseTypeSystemDefinition(lexer) ==
  LET keywordToken == IF peekDescription(lexer) THEN lookahead(lexer) ELSE token(lexer) IN
  IF keywordToken.kind = TokenKind.NAME
    THEN CASE keywordToken.value = "schema" -> call("parseSchemaDefinition", <<lexer>>)
           [] keywordToken.value = "scalar" -> call("parseScalarTypeDefinition", <<lexer>>)
           [] keywordToken.value = "type" -> call("parseObjectTypeDefinition", <<lexer>>)
           [] keywordToken.value = "interface" -> call("parseInterfaceTypeDefinition", <<lexer>>)
           [] keywordToken.value = "union" -> call("parseUnionTypeDefinition", <<lexer>>)
           [] keywordToken.value = "enum" -> call("parseEnumTypeDefinition", <<lexer>>)
           [] keywordToken.value = "input" -> call("parseInputObjectTypeDefinition", <<lexer>>)
           [] keywordToken.value = "extend" -> call("parseTypeExtension", <<lexer>>)
           [] keywordToken.value = "directive" -> call("parseDirectiveDefinition", <<lexer>>)
           [] OTHER -> Throw(lexer, unexpected(lexer, keywordToken))
    ELSE Throw(lexer, unexpected(lexer, keywordToken))

\* ------------------------------------------------------------------------
\* Document (parser.js:184-245)
\* ------------------------------------------------------------------------

\* parseDefinition(lexer)
parseDefinition(lexer) ==
  IF peek(lexer, TokenKind.BRACE_L)
    THEN call("parseOperationDefinition", <<lexer>>)
  ELSE IF peek(lexer, TokenKind.NAME)
          /\ token(lexer).value \in {"query", "mutation", "subscription"}
    THEN call("parseOperationDefinition", <<lexer>>)
  ELSE IF peek(lexer, TokenKind.NAME) /\ token(lexer).value = "fragment"
    THEN call("parseFragmentDefinition", <<lexer>>)
  ELSE IF peek(lexer, TokenKind.NAME)
          /\ token(lexer).value \in {"schema", "scalar", "type", "interface", "union",
                                     "enum", "input", "extend", "directive"}
    THEN call("parseTypeSystemDefinition", <<lexer>>)
  ELSE IF peekDescription(lexer)
    THEN call("parseTypeSystemDefinition", <<lexer>>)
  ELSE Throw(lexer, unexpected(lexer, undefined))

\* parseDocument_loop with the test moved to the head of the loop:
\* while (!skip(lexer, EOF)) { definitions.push(parseDefinition(lexer)) }
RECURSIVE parseDocument_loop_testFirst(_, _)
parseDocument_loop_testFirst(lexer, definitions) ==
  LET e == skip(lexer, TokenKind.EOF) IN
  IF e.val THEN Ok(e.lex, definitions)
  ELSE LET d == call("parseDefinition", <<e.lex>>) IN
       IF ~d.ok THEN d
       ELSE parseDocument_loop_testFirst(d.lex, Append(definitions, d.val))

\* the loop of parseDocument:
\* do { definitions.push(parseDefinition(lexer)) } while (!skip(lexer, EOF))
RECURSIVE parseDocument_loop(_, _)
parseDocument_loop(lexer, definitions) ==
  LET d == call("parseDefinition", <<lexer>>) IN
  IF ~d.ok THEN d
  ELSE LET e == skip(d.lex, TokenKind.EOF) IN
       IF ~e.val THEN parseDocument_loop(e.lex, Append(definitions, d.val))
       ELSE Ok(e.lex, Append(definitions, d.val))

\* parseDocument(lexer)
parseDocument(lexer) ==
  LET start == token(lexer)
      s == expect(lexer, TokenKind.SOF) IN
  IF ~s.ok THEN s
  ELSE LET definitions == parseDocument_loop(s.lex, <<>>) IN
  IF ~definitions.ok THEN definitions
  ELSE Ok(definitions.lex, [kind |-> Kind_DOCUMENT, definitions |-> definitions.val,
                            loc |-> loc(definitions.lex, start)])

\* parseFn applied to args: parseFn(...args).  The productions call one another
\* through this one point of recursion.
call(parseFn, args) ==
  CASE parseFn = "parseName" -> parseName(args[1])
    [] parseFn = "parseVariable" -> parseVariable(args[1])
    [] parseFn = "parseStringLiteral" -> parseStringLiteral(args[1])
    [] parseFn = "parseConstValue" -> parseConstValue(args[1])
    [] parseFn = "parseValueValue" -> parseValueValue(args[1])
    [] parseFn = "parseList" -> parseList(args[1], args[2])
    [] parseFn = "parseObjectField" -> parseObjectField(args[1], args[2])
    [] parseFn = "parseObject" -> parseObject(args[1], args[2])
    [] parseFn = "parseValueLiteral" -> parseValueLiteral(args[1], args[2])
    [] parseFn = "parseNamedType" -> parseNamedType(args[1])
    [] parseFn = "parseTypeReference" -> parseTypeReference(args[1])
    [] parseFn = "parseArgument" -> parseArgument(args[1])
    [] parseFn = "parseConstArgument" -> parseConstArgument(args[1])
    [] parseFn = "parseArguments" -> parseArguments(args[1], args[2])
    [] parseFn = "parseDirective" -> parseDirective(args[1], args[2])
    [] parseFn = "parseDirectives" -> parseDirectives(args[1], args[2])
    [] parseFn = "parseOperationType" -> parseOperationType(args[1])
    [] parseFn = "parseVariableDefinition" -> parseVariableDefinition(args[1])
    [] parseFn = "parseVariableDefinitions" -> parseVariableDefinitions(args[1])
    [] parseFn = "parseSelectionSet" -> parseSelectionSet(args[1])
    [] parseFn = "parseField" -> parseField(args[1])
    [] parseFn = "parseFragmentName" -> parseFragmentName(args[1])
    [] parseFn = "parseFragment" -> parseFragment(args[1])
    [] parseFn = "parseSelection" -> parseSelection(args[1])
    [] parseFn = "parseOperationDefinition" -> parseOperationDefinition(args[1])
    [] parseFn = "parseFragmentDefinition" -> parseFragmentDefinition(args[1])
    [] parseFn = "parseDescription" -> parseDescription(args[1])
    [] parseFn = "parseOperationTypeDefinition" -> parseOperationTypeDefinition(args[1])
    [] parseFn = "parseSchemaDefinition" -> parseSchemaDefinition(args[1])
    [] parseFn = "parseScalarTypeDefinition" -> parseScalarTypeDefinition(args[1])
    [] parseFn = "parseImplementsInterfaces" -> parseImplementsInterfaces(args[1])
    [] parseFn = "parseInputValueDef" -> parseInputValueDef(args[1])
    [] parseFn = "parseArgumentDefs" -> parseArgumentDefs(args[1])
    [] parseFn = "parseFieldDefinition" -> parseFieldDefinition(args[1])
    [] parseFn = "parseFieldDefinitions" -> parseFieldDefinitions(args[1])
    [] parseFn = "parseObjectTypeDefinition" -> parseObjectTypeDefinition(args[1])
    [] parseFn = "parseInterfaceTypeDefinition" -> parseInterfaceTypeDefinition(args[1])
    [] parseFn = "parseUnionMembers" -> parseUnionMembers(args[1])
    [] parseFn = "parseUnionTypeDefinition" -> parseUnionTypeDefinition(args[1])
    [] parseFn = "parseEnumValueDefinition" -> parseEnumValueDefinition(args[1])
    [] parseFn = "parseEnumTypeDefinition" -> parseEnumTypeDefinition(args[1])
    [] parseFn = "parseInputObjectTypeDefinition" -> parseInputObjectTypeDefinition(args[1])
    [] parseFn = "parseObjectTypeExtension" -> parseObjectTypeExtension(args[1])
    [] parseFn = "parseTypeExtension" -> parseTypeExtension(args[1])
    [] parseFn = "parseDirectiveLocation" -> parseDirectiveLocation(args[1])
    [] parseFn = "parseDirectiveLocations" -> parseDirectiveLocations(args[1])
    [] parseFn = "parseDirectiveDefinition" -> parseDirectiveDefinition(args[1])
    [] parseFn = "parseTypeSystemDefinition" -> parseTypeSystemDefinition(args[1])
    [] parseFn = "parseDefinition" -> parseDefinition(args[1])
    [] parseFn = "parseDocument" -> parseDocument(args[1])


\* ------------------------------------------------------------------------
\* Public entry points (parser.js:112-170)
\* ------------------------------------------------------------------------

\* parse(source, options)
parse(src, options) ==
  LET lexer == createLexer(src, IF options = undefined THEN <<>> ELSE options) IN
  call("parseDocument", <<lexer>>)

\* parseValue that returns the value without expecting <EOF> after it
parseValue_noEOF(src, options) ==
  LET lexer == createLexer(src, IF options = undefined THEN <<>> ELSE options)
      s == expect(lexer, TokenKind.SOF) IN
  IF ~s.ok THEN s
  ELSE call("parseValueLiteral", <<s.lex, FALSE>>)

\* parseValue(source, options)
parseValue(src, options) ==
  LET lexer == createLexer(src, IF options = undefined THEN <<>> ELSE options)
      s == expect(lexer, TokenKind.SOF) IN
  IF ~s.ok THEN s
  ELSE LET value == call("parseValueLiteral", <<s.lex, FALSE>>) IN
  IF ~value.ok THEN value
  ELSE LET e == expect(value.lex, TokenKind.EOF) IN
  IF ~e.ok THEN e
  ELSE Ok(e.lex, value.val)

\* parseType(source, options)
parseType(src, options) ==
  LET lexer == createLexer(src, IF options = undefined THEN <<>> ELSE options)
      s == expect(lexer, TokenKind.SOF) IN
  IF ~s.ok THEN s
  ELSE LET type == call("parseTypeReference", <<s.lex>>) IN
  IF ~type.ok THEN type
  ELSE LET e == expect(type.lex, TokenKind.EOF) IN
  IF ~e.ok THEN e
  ELSE Ok(e.lex, type.val)

\* ------------------------------------------------------------------------
\* Sources the entry points are called with
\* ------------------------------------------------------------------------

\* shorthands for lexemes
punct(kind) == Lexeme(kind, noValue)
name(value) == Lexeme(TokenKind.NAME, value)
int(value) == Lexeme(TokenKind.INT, value)
str(value) == Lexeme(TokenKind.STRING, value)
blockStr(value) == Lexeme(TokenKind.BLOCK_STRING, value)

\* every sequence of at most n lexemes drawn from the set S
SeqsUpTo(S, n) == UNION { [1..k -> S] : k \in 0..n }

\* the sources  pre \o hole \o post  for every hole of at most n lexemes of S
Holes(pre, S, n, post) == { pre \o hole \o post : hole \in SeqsUpTo(S, n) }

\* the longest run of arbitrary lexemes in a source
MaxHole == 4

\* the deepest nesting of a generated value literal
MaxDepth == 2

\* well-formed value literals nested at most d deep, variables included
RECURSIVE Values(_)
Values(d) ==
  IF d = 0
    THEN { <<punct("$"), name("x")>>, <<name("x")>>, <<int("1")>> }
    ELSE LET V == Values(d - 1) IN
         V \cup { <<punct("["), punct("]")>>, <<punct("{"), punct("}")>> }
           \cup { <<punct("[")>> \o v \o <<punct("]")>> : v \in V }
           \cup { <<punct("["), name("x")>> \o v \o <<punct("]")>> : v \in V }
           \cup { <<punct("{"), name("k"), punct(":")>> \o v \o <<punct("}")>> : v \in V }

\* a directive with one argument whose value is v
Directive(v) ==
  <<punct("@"), name("d"), punct("("), name("a"), punct(":")>> \o v \o <<punct(")")>>

SelectionSetA == <<punct("{"), name("a"), punct("}")>>
FieldDefsA == <<punct("{"), name("a"), punct(":"), name("T"), punct("}")>>

\* the places where a value literal stands: [pre, post, const, fn]; const
\* tells whether the production there parses the value as a constant, fn is
\* the entry point that parses such a source
ValueContexts ==
  { \* parseValue: the whole source
    [pre |-> <<>>, post |-> <<>>, const |-> FALSE, fn |-> "parseValue"],
    \* parseArgument: the argument of a field
    [pre |-> <<punct("{"), name("x"), punct("("), name("a"), punct(":")>>,
     post |-> <<punct(")"), punct("}")>>, const |-> FALSE, fn |-> "parse"],
    \* parseVariableDefinition: the default value of a variable
    [pre |-> <<name("query"), punct("("), punct("$"), name("a"), punct(":"),
               name("T"), punct("=")>>,
     post |-> <<punct(")")>> \o SelectionSetA, const |-> TRUE, fn |-> "parse"],
    \* parseInputValueDef: the default value of an input field
    [pre |-> <<name("input"), name("I"), punct("{"), name("a"), punct(":"),
               name("T"), punct("=")>>,
     post |-> <<punct("}")>>, const |-> TRUE, fn |-> "parse"],
    \* parseInputValueDef: the default value of an argument definition
    [pre |-> <<name("type"), name("T"), punct("{"), name("a"), punct("("),
               name("a"), punct(":"), name("T"), punct("=")>>,
     post |-> <<punct(")"), punct(":"), name("T"), punct("}")>>,
     const |-> TRUE, fn |-> "parse"] }

\* the places of a document where directives stand: [place, pre, post, const];
\* const is the isConst argument of the parseDirectives call of that place
DirectiveContexts ==
  { [place |-> "operation definition", const |-> FALSE,   \* parser.js:274
     pre |-> <<name("query"), name("Q")>>, post |-> SelectionSetA],
    [place |-> "fragment definition", const |-> FALSE,    \* parser.js:483
     pre |-> <<name("fragment"), name("F"), name("on"), name("T")>>,
     post |-> SelectionSetA],
    [place |-> "field", const |-> FALSE,                  \* parser.js:390
     pre |-> <<punct("{"), name("a")>>, post |-> <<punct("}")>>],
    [place |-> "fragment spread", const |-> FALSE,        \* parser.js:452
     pre |-> <<punct("{"), punct("..."), name("F")>>, post |-> <<punct("}")>>],
    [place |-> "inline fragment", const |-> FALSE,        \* parser.js:464
     pre |-> <<punct("{"), punct("...")>>, post |-> SelectionSetA \o <<punct("}")>>],
    [place |-> "inline fragment on", const |-> FALSE,     \* parser.js:464
     pre |-> <<punct("{"), punct("..."), name("on"), name("T")>>,
     post |-> SelectionSetA \o <<punct("}")>>],
    [place |-> "schema", const |-> TRUE,                  \* parser.js:779
     pre |-> <<name("schema")>>,
     post |-> <<punct("{"), name("query"), punct(":"), name("T"), punct("}")>>],
    [place |-> "scalar", const |-> TRUE,                  \* parser.js:820
     pre |-> <<name("scalar"), name("S")>>, post |-> <<>>],
    [place |-> "object type", const |-> TRUE,             \* parser.js:841
     pre |-> <<name("type"), name("T")>>, post |-> FieldDefsA],
    [place |-> "field definition", const |-> TRUE,        \* parser.js:891
     pre |-> <<name("type"), name("T"), punct("{"), name("a"), punct(":"), name("T")>>,
     post |-> <<punct("}")>>],
    [place |-> "interface", const |-> TRUE,               \* parser.js:950
     pre |-> <<name("interface"), name("I")>>, post |-> FieldDefsA],
    [place |-> "union", const |-> TRUE,                   \* parser.js:971
     pre |-> <<name("union"), name("U")>>, post |-> <<punct("="), name("T")>>],
    [place |-> "enum", const |-> TRUE,                    \* parser.js:1008
     pre |-> <<name("enum"), name("E")>>,
     post |-> <<punct("{"), name("A"), punct("}")>>],
    [place |-> "enum value", const |-> TRUE,              \* parser.js:1034
     pre |-> <<name("enum"), name("E"), punct("{"), name("A")>>,
     post |-> <<punct("}")>>],
    [place |-> "input object", const |-> TRUE,            \* parser.js:1055
     pre |-> <<name("input"), name("I")>>, post |-> FieldDefsA],
    [place |-> "input value", const |-> TRUE,             \* parser.js:927
     pre |-> <<name("input"), name("I"), punct("{"), name("a"), punct(":"), name("T")>>,
     post |-> <<punct("}")>>],
    [place |-> "object type extension", const |-> TRUE,   \* parser.js:1101
     pre |-> <<name("extend"), name("type"), name("T")>>, post |-> <<>>] }

\* the lists `many` builds: [pre, open, close, item, post, kind, field]; the
\* node of that kind holds the list in that field
ManyContexts ==
  LET braces == [open |-> punct("{"), close |-> punct("}")]
      parens == [open |-> punct("("), close |-> punct(")")]
      Ctx(b, pre, item, post, kind, field) ==
        [open |-> b.open, close |-> b.close, pre |-> pre, item |-> item, post |-> post,
         kind |-> kind, field |-> field]
      value == <<name("a"), punct(":"), int("1")>>
      typed == <<name("a"), punct(":"), name("T")>> IN
  { Ctx(braces, <<>>, <<name("a")>>, <<>>, Kind_SELECTION_SET, "selections"),
    Ctx(parens, <<name("query")>>, <<punct("$")>> \o typed, SelectionSetA,
        Kind_OPERATION_DEFINITION, "variableDefinitions"),
    Ctx(parens, <<punct("{"), name("a")>>, value, <<punct("}")>>, Kind_FIELD, "arguments"),
    Ctx(parens, <<punct("{"), name("a"), punct("@"), name("d")>>, value, <<punct("}")>>,
        Kind_DIRECTIVE, "arguments"),
    Ctx(parens, <<name("type"), name("T"), punct("{"), name("a")>>, typed,
        <<punct(":"), name("T"), punct("}")>>, Kind_FIELD_DEFINITION, "arguments"),
    Ctx(parens, <<name("directive"), punct("@"), name("d")>>, typed,
        <<name("on"), name("FIELD")>>, Kind_DIRECTIVE_DEFINITION, "arguments"),
    Ctx(braces, <<name("type"), name("T")>>, typed, <<>>,
        Kind_OBJECT_TYPE_DEFINITION, "fields"),
    Ctx(braces, <<name("interface"), name("I")>>, typed, <<>>,
        Kind_INTERFACE_TYPE_DEFINITION, "fields"),
    Ctx(braces, <<name("extend"), name("type"), name("T")>>, typed, <<>>,
        Kind_OBJECT_TYPE_EXTENSION, "fields"),
    Ctx(braces, <<name("enum"), name("E")>>, <<name("A")>>, <<>>,
        Kind_ENUM_TYPE_DEFINITION, "values"),
    Ctx(braces, <<name("input"), name("I")>>, typed, <<>>,
        Kind_INPUT_OBJECT_TYPE_DEFINITION, "fields"),
    Ctx(braces, <<name("schema")>>, <<name("query"), punct(":"), name("T")>>, <<>>,
        Kind_SCHEMA_DEFINITION, "operationTypes") }

\* the source of the list of c with the item of c given k times
ManySource(c, k) ==
  c.pre \o <<c.open>> \o (IF k = 0 THEN <<>> ELSE IF k = 1 THEN c.item ELSE c.item \o c.item)
        \o <<c.close>> \o c.post

\* every such list, empty, of one item and of two
ManySources == { ManySource(c, k) : c \in ManyContexts, k \in 0..2 }

\* one type-system definition of every form parseTypeSystemDefinition dispatches
TypeSystemDefinitions ==
  { <<name("schema"), punct("{"), name("query"), punct(":"), name("T"), punct("}")>>,
    <<name("scalar"), name("S")>>,
    <<name("type"), name("T")>> \o FieldDefsA,
    <<name("type"), name("T"), name("implements"), name("I")>> \o FieldDefsA,
    <<name("interface"), name("I")>> \o FieldDefsA,
    <<name("union"), name("U"), punct("="), name("A"), punct("|"), name("B")>>,
    <<name("enum"), name("E"), punct("{"), name("A"), punct("}")>>,
    <<name("input"), name("I")>> \o FieldDefsA,
    <<name("extend"), name("type"), name("T"), punct("@"), name("d")>>,
    <<name("extend"), name("type"), name("T")>> \o FieldDefsA,
    <<name("directive"), punct("@"), name("d"), name("on"), name("FIELD")>>,
    <<name("directive"), punct("@"), name("d"), punct("("), name("a"), punct(":"),
      name("T"), punct(")"), name("on"), punct("|"), name("QUERY"), punct("|"),
      name("FIELD")>> }

\* the descriptions a definition may be given: none, a string, a block string
Descriptions == { <<>>, <<str("d")>>, <<blockStr("d")>> }

\* what may follow the name of an object type: interfaces, written with the
\* keyword or with a string of the same text, a directive, a block of fields
\* and the beginning of something else
AfterTypeName ==
  { i \o d \o f \o rest :
      i \in { <<>>, <<name("implements"), name("I")>>,
               <<name("implements"), name("I"), name("J")>>,
               <<name("implements")>>,
               <<str("implements"), name("I")>>, <<blockStr("implements"), name("I")>> },
      d \in { <<>>, <<punct("@"), name("d")>> },
      f \in { <<>>, FieldDefsA },
      rest \in { <<>>, <<name("scalar"), name("S")>>, <<punct("}")>>, <<int("1")>> } }

\* type extensions and object type definitions, with and without a description
ExtensionSources ==
  { d \o k \o <<name("T")>> \o a :
      d \in Descriptions, k \in { <<name("extend"), name("type")>>, <<name("type")>> },
      a \in AfterTypeName }
  \cup
  { d \o <<name("extend"), k>> \o rest :
      d \in Descriptions,
      k \in { name("scalar"), name("interface"), name("union"), name("enum"),
               name("input"), name("schema"), name("extend"), name("a"),
               str("type"), punct("{"), int("1") },
      rest \in { <<>>, <<name("T")>>, <<name("T"), punct("@"), name("d")>> } }

\* the head of a directive definition, up to its locations
DirectiveHead == <<name("directive"), punct("@"), name("d"), name("on")>>

\* what may stand where the locations of a directive definition are expected
DirectiveLocationSources ==
  Holes(DirectiveHead,
        { punct("|"), name("QUERY"), name("FIELD"), name("FOO"), str("QUERY") },
        MaxHole, <<>>)

\* short runs of the lexemes of selection sets, at the top level
ShortDocuments ==
  Holes(<<>>, { punct("{"), punct("}"), punct("..."), name("a"), name("on") },
        MaxHole, <<>>)

\* what may follow `...` in a selection set
FragmentSources ==
  LET S == { name("on"), name("a"), str("on"), blockStr("on"), punct("@") } IN
  Holes(<<punct("{"), punct("...")>>, S, MaxHole, <<punct("}")>>)
    \cup Holes(<<punct("{"), punct("...")>>, S, MaxHole, SelectionSetA \o <<punct("}")>>)

\* what may stand between `fragment` and the selection set of a fragment definition
FragmentDefinitionSources ==
  Holes(<<name("fragment")>>, { name("on"), name("a"), str("on"), punct("@") },
        MaxHole, SelectionSetA)

\* what may stand between the parentheses of a field's arguments
ArgumentSources ==
  Holes(<<punct("{"), name("a"), punct("(")>>,
        { name("a"), punct(":"), punct("$"), punct("["), punct("]") },
        MaxHole, <<punct(")"), punct("}")>>)

\* short runs of the lexemes that end an argument and begin another
LeftoverSources ==
  Holes(<<>>, { name("x"), punct(":"), punct("("), punct(")") }, MaxHole, <<>>)

\* short runs of the lexemes of value literals
ValueAlphabet ==
  { punct("["), punct("]"), punct("{"), punct("}"), punct("$"), name("x") }

ValueSources ==
  Holes(<<>>, ValueAlphabet, MaxHole, <<>>)
    \cup { c.pre \o v \o c.post : c \in ValueContexts, v \in Values(MaxDepth) }

\* short runs of the lexemes of type references, alone and where a variable
\* definition and a field definition take a type
TypeSources ==
  LET S == { punct("["), punct("]"), punct("!"), name("Int") } IN
  Holes(<<>>, S, MaxHole, <<>>)
    \cup Holes(<<punct("[")>>, S, MaxHole, <<>>)
    \cup Holes(<<name("query"), punct("("), punct("$"), name("a"), punct(":")>>, S,
               MaxHole, <<punct(")")>> \o SelectionSetA)
    \cup Holes(<<name("type"), name("T"), punct("{"), name("a"), punct(":")>>, S,
               MaxHole, <<punct("}")>>)

\* a directive on every place that takes directives
DirectiveSources ==
  { c.pre \o Directive(v) \o c.post : c \in DirectiveContexts, v \in Values(MaxDepth - 1) }

\* type-system definitions, each alone, described, and followed by another
TypeSystemSources ==
  { d \o t : d \in Descriptions, t \in TypeSystemDefinitions }
    \cup { t \o d \o <<name("scalar"), name("S")>> :
             d \in Descriptions, t \in TypeSystemDefinitions }
    \cup Holes(<<>>, { str("d"), name("scalar"), name("extend"), name("type"), name("a") },
               MaxHole, <<>>)
    \cup Holes(<<>>, { str("d"), name("schema"), name("a"), punct("@") },
               MaxHole, <<punct("{"), name("query"), punct(":"), name("T"), punct("}")>>)

Sources ==
  ShortDocuments \cup FragmentSources \cup FragmentDefinitionSources
    \cup ArgumentSources \cup ValueSources \cup TypeSources
    \cup DirectiveSources \cup TypeSystemSources \cup ManySources
    \cup ExtensionSources \cup DirectiveLocationSources \cup LeftoverSources

\* ------------------------------------------------------------------------
\* The state machine: a caller holds a source and options and calls one of
\* the entry points once.
\* ------------------------------------------------------------------------
VARIABLES
  source,    \* the lexemes of the source text
  options,   \* the ParseOptions record
  pc,        \* "idle" before the call, then "returned" or "thrown"
  entry,     \* the entry point that was called
  result,    \* the node returned, or the syntax error thrown
  lexer,     \* lexer.token and lexer.lastToken (positions in the token stream)
  raised     \* every error thrown during the call, with lexer.token at the throw

vars == <<source, options, pc, entry, result, lexer, raised>>

Init ==
  /\ source \in Sources
  /\ options \in { [noLocation |-> b] : b \in BOOLEAN }
  /\ pc = "idle"
  /\ entry = "none"
  /\ result = undefined
  /\ lexer = [token |-> 1, lastToken |-> 1]
  /\ raised = <<>>

\* what a call leaves behind
Finish(fn, r) ==
  /\ pc' = IF r.ok THEN "returned" ELSE "thrown"
  /\ entry' = fn
  /\ result' = IF r.ok THEN r.val ELSE r.err
  /\ lexer' = [token |-> r.lex.token, lastToken |-> r.lex.lastToken]
  /\ raised' = r.lex.raised
  /\ UNCHANGED <<source, options>>

ParseCall == pc = "idle" /\ Finish("parse", parse(source, options))

ParseValueCall == pc = "idle" /\ Finish("parseValue", parseValue(source, options))

ParseTypeCall == pc = "idle" /\ Finish("parseType", parseType(source, options))

Next == ParseCall \/ ParseValueCall \/ ParseTypeCall

Spec == Init /\ [][Next]_vars

\* ------------------------------------------------------------------------
\* The shape of the AST (the node literals of parser.js)
\* ------------------------------------------------------------------------

\* a sequence holding x unless x is null or undefined
opt(x) == IF x = null \/ x = undefined THEN <<>> ELSE <<x>>

\* the child nodes of a node, in source order
children(node) ==
  CASE node.kind = Kind_VARIABLE -> <<node.name>>
    [] node.kind = Kind_DOCUMENT -> node.definitions
    [] node.kind = Kind_OPERATION_DEFINITION ->
         opt(node.name) \o node.variableDefinitions \o node.directives
           \o <<node.selectionSet>>
    [] node.kind = Kind_VARIABLE_DEFINITION ->
         <<node.variable, node.type>> \o opt(node.defaultValue)
    [] node.kind = Kind_SELECTION_SET -> node.selections
    [] node.kind = Kind_FIELD ->
         opt(node.alias) \o <<node.name>> \o node.arguments \o node.directives
           \o opt(node.selectionSet)
    [] node.kind = Kind_ARGUMENT -> <<node.name, node.value>>
    [] node.kind = Kind_FRAGMENT_SPREAD -> <<node.name>> \o node.directives
    [] node.kind = Kind_INLINE_FRAGMENT ->
         opt(node.typeCondition) \o node.directives \o <<node.selectionSet>>
    [] node.kind = Kind_FRAGMENT_DEFINITION ->
         <<node.name, node.typeCondition>> \o node.directives \o <<node.selectionSet>>
    [] node.kind = Kind_LIST -> node.values
    [] node.kind = Kind_OBJECT -> node.fields
    [] node.kind = Kind_OBJECT_FIELD -> <<node.name, node.value>>
    [] node.kind = Kind_DIRECTIVE -> <<node.name>> \o node.arguments
    [] node.kind = Kind_NAMED_TYPE -> <<node.name>>
    [] node.kind = Kind_LIST_TYPE -> <<node.type>>
    [] node.kind = Kind_NON_NULL_TYPE -> <<node.type>>
    [] node.kind = Kind_SCHEMA_DEFINITION -> node.directives \o node.operationTypes
    [] node.kind = Kind_OPERATION_TYPE_DEFINITION -> <<node.type>>
    [] node.kind = Kind_SCALAR_TYPE_DEFINITION ->
         opt(node.description) \o <<node.name>> \o node.directives
    [] node.kind = Kind_OBJECT_TYPE_DEFINITION ->
         opt(node.description) \o <<node.name>> \o node.interfaces \o node.directives
           \o node.fields
    [] node.kind = Kind_FIELD_DEFINITION ->
         opt(node.description) \o <<node.name>> \o node.arguments \o <<node.type>>
           \o node.directives
    [] node.kind = Kind_INPUT_VALUE_DEFINITION ->
         opt(node.description) \o <<node.name, node.type>> \o opt(node.defaultValue)
           \o node.directives
    [] node.kind = Kind_INTERFACE_TYPE_DEFINITION ->
         opt(node.description) \o <<node.name>> \o node.directives \o node.fields
    [] node.kind = Kind_UNION_TYPE_DEFINITION ->
         opt(node.description) \o <<node.name>> \o node.directives \o node.types
    [] node.kind = Kind_ENUM_TYPE_DEFINITION ->
         opt(node.description) \o <<node.name>> \o node.directives \o node.values
    [] node.kind = Kind_ENUM_VALUE_DEFINITION ->
         opt(node.description) \o <<node.name>> \o node.directives
    [] node.kind = Kind_INPUT_OBJECT_TYPE_DEFINITION ->
         opt(node.description) \o <<node.name>> \o node.directives \o node.fields
    [] node.kind = Kind_OBJECT_TYPE_EXTENSION ->
         <<node.name>> \o node.interfaces \o node.directives \o node.fields
    [] node.kind = Kind_DIRECTIVE_DEFINITION ->
         opt(node.description) \o <<node.name>> \o node.arguments \o node.locations
    [] OTHER -> <<>>

\* a node and all the nodes below it
RECURSIVE Nodes(_)
Nodes(node) ==
  {node} \cup UNION { Nodes(children(node)[i]) : i \in 1..Len(children(node)) }

\* the nodes of the tree the call returned (none when it threw)
ResultNodes == IF pc = "returned" THEN Nodes(result) ELSE {}

\* the tokens of the source
Tokens == tokenize(source)

\* the position of the EOF token
EOFIndex == Len(source) + 2

\* ------------------------------------------------------------------------
\* The error a call threw
\* ------------------------------------------------------------------------

\* the position in the token stream of the token an offset points at (SOF and
\* the first token both start at 0: the first token is meant)
TokenAt(offset) ==
  CHOOSE i \in 2..EOFIndex : Tokens[i].start = offset

\* ------------------------------------------------------------------------
\* C1  parse never returns a Document without definitions
\* ------------------------------------------------------------------------

\* C1: whatever the source, parse ends by returning or by throwing; a Document
\* it returns has at least one definition; and on the empty source it throws a
\* syntax error whose offset is 0, the start of the EOF token.
C1_DocumentHasDefinition ==
  entry = "parse" =>
    /\ pc \in {"returned", "thrown"}
    /\ pc = "returned" => result.kind = Kind_DOCUMENT /\ Len(result.definitions) >= 1
    /\ source = <<>> =>
         /\ pc = "thrown"
         /\ result.offset = 0
         /\ result.offset = Tokens[EOFIndex].start

\* parse has returned a Document: its definition loop ran and stopped at EOF
C1_Witness ==
  /\ entry = "parse"
  /\ pc = "returned"
  /\ Len(result.definitions) = 2

\* ------------------------------------------------------------------------
\* C2  one outcome per call; the first error aborts
\* ------------------------------------------------------------------------

\* the kinds of node each entry point returns
ValueKinds ==
  { Kind_VARIABLE, Kind_INT, Kind_FLOAT, Kind_STRING, Kind_BOOLEAN, Kind_NULL,
    Kind_ENUM, Kind_LIST, Kind_OBJECT }

TypeKinds == { Kind_NAMED_TYPE, Kind_LIST_TYPE, Kind_NON_NULL_TYPE }

ReturnKinds(fn) ==
  CASE fn = "parse" -> {Kind_DOCUMENT}
    [] fn = "parseValue" -> ValueKinds
    [] fn = "parseType" -> TypeKinds

Run(fn, src, opts) ==
  CASE fn = "parse" -> parse(src, opts)
    [] fn = "parseValue" -> parseValue(src, opts)
    [] fn = "parseType" -> parseType(src, opts)

\* the longest run of lexemes tried to complete the beginning of a source
MaxCompletion == 2

\* the runs of lexemes tried to complete the beginning of a source
Completions ==
  SeqsUpTo({ name("scalar"), name("a"), punct("}"), punct(")"), punct("]") },
           MaxCompletion)

\* some source the entry point accepts begins with the lexemes pre
Viable(fn, pre) ==
  \E rest \in Completions : Run(fn, pre \o rest, [noLocation |-> TRUE]).ok

\* C3: the offset of every syntax error lies in [0, len(source)] and is the
\* start of the first offending token.  Of the two things that makes the
\* token at the offset -- what stands before it begins an accepted source,
\* what stands up to and including it begins none -- the second is stated
\* here: no source the entry point accepts begins with the lexemes up to and
\* including the one the error points at.
C3_ErrorAtFirstOffendingToken ==
  pc = "thrown" =>
    /\ result.offset \in 0..sourceLength(source)
    /\ \E i \in 2..EOFIndex : Tokens[i].start = result.offset
    /\ TokenAt(result.offset) < EOFIndex =>
         ~Viable(entry, SubSeq(source, 1, TokenAt(result.offset) - 1))

\* ------------------------------------------------------------------------
\* C4  no variable in a const value
\* ------------------------------------------------------------------------

\* the position of the first `$` of a lexeme sequence (0 when it has none)
FirstDollar(seq) ==
  IF \E i \in 1..Len(seq) : seq[i].kind = TokenKind.DOLLAR
    THEN CHOOSE i \in 1..Len(seq) :
           /\ seq[i].kind = TokenKind.DOLLAR
           /\ \A j \in 1..(i - 1) : seq[j].kind # TokenKind.DOLLAR
    ELSE 0

\* the source begins with pre and ends with post
Around(pre, post) ==
  /\ Len(source) >= Len(pre) + Len(post)
  /\ SubSeq(source, 1, Len(pre)) = pre
  /\ SubSeq(source, Len(source) - Len(post) + 1, Len(source)) = post

\* what the source holds between pre and post
Inner(pre, post) == SubSeq(source, Len(pre) + 1, Len(source) - Len(post))

\* C4: (1) in a returned tree no default value, of a variable definition or of
\* an input value definition, holds a Variable node at any depth; (2) a value
\* with a `$` in it, directly or nested in lists and object fields, standing as
\* such a default value makes parse throw 'Unexpected $' at the start of that
\* `$`; (3) the same value where values are not const (parseValue, a field's
\* argument) is returned, the `$` as a Variable node.
C4_ConstValueHasNoVariable ==
  /\ \A n \in ResultNodes :
       n.kind \in {Kind_VARIABLE_DEFINITION, Kind_INPUT_VALUE_DEFINITION} =>
         \A m \in UNION { Nodes(d) : d \in {n.defaultValue} } : m.kind # Kind_VARIABLE
  /\ \A c \in ValueContexts :
       (entry = c.fn /\ Around(c.pre, c.post)) =>
         \A v \in {Inner(c.pre, c.post)} \cap Values(MaxDepth) :
         IF c.const /\ FirstDollar(v) # 0
           THEN /\ pc = "thrown"
                /\ result.message = "Unexpected $"
                /\ result.offset = Tokens[1 + Len(c.pre) + FirstDollar(v)].start
           ELSE /\ pc = "returned"
                /\ (FirstDollar(v) # 0) <=> (\E m \in ResultNodes : m.kind = Kind_VARIABLE
                                                 /\ m.name.value = "x")

\* a variable nested in a list inside an object field, as the default value of
\* a variable definition, has been refused
C4_Witness ==
  /\ entry = "parse"
  /\ pc = "thrown"
  /\ result.message = "Unexpected $"
  /\ \E v \in Values(MaxDepth) :
       /\ source = <<name("query"), punct("("), punct("$"), name("a"), punct(":"),
                     name("T"), punct("=")>> \o v \o <<punct(")")>> \o SelectionSetA
       /\ FirstDollar(v) > 4

\* ------------------------------------------------------------------------
\* C5  variables in the arguments of directives
\* ------------------------------------------------------------------------

\* the definitions of the type system: every node of these kinds takes directives
TypeSystemDirectiveKinds ==
  { Kind_SCHEMA_DEFINITION, Kind_SCALAR_TYPE_DEFINITION, Kind_OBJECT_TYPE_DEFINITION,
    Kind_FIELD_DEFINITION, Kind_INPUT_VALUE_DEFINITION, Kind_INTERFACE_TYPE_DEFINITION,
    Kind_UNION_TYPE_DEFINITION, Kind_ENUM_TYPE_DEFINITION, Kind_ENUM_VALUE_DEFINITION,
    Kind_INPUT_OBJECT_TYPE_DEFINITION, Kind_OBJECT_TYPE_EXTENSION }

\* the source is a directive with the argument value v in the place c, parsed
DirectiveCase(c, v) ==
  /\ entry = "parse"
  /\ Around(c.pre \o <<punct("@")>>, c.post)
  /\ source = c.pre \o Directive(v) \o c.post

\* the argument value of the directive the source has in the place c, if it
\* has one there and that value is well formed
DirectiveValues(c) ==
  LET pre == c.pre \o <<punct("@"), name("d"), punct("("), name("a"), punct(":")>>
      post == <<punct(")")>> \o c.post IN
  IF entry = "parse" /\ Around(pre, post)
    THEN {Inner(pre, post)} \cap Values(MaxDepth - 1)
    ELSE {}

\* the definitions that carry directives, as C5 lists them
C5_Definitions ==
  { "operation definition", "fragment definition", "schema", "scalar", "object type",
    "interface", "union", "enum", "input object", "object type extension" }

\* C5 (as stated): a `$` variable in the argument of a directive on an
\* operation definition, a fragment definition, a schema, scalar, object type,
\* interface, union, enum, input object or object type extension raises a
\* syntax error; on a field, a fragment spread and an inline fragment it is
\* accepted.
C5_DefinitionDirectivesAreConst ==
  \A c \in DirectiveContexts, v \in Values(MaxDepth - 1) :
    (DirectiveCase(c, v) /\ FirstDollar(v) # 0) =>
      IF c.place \in C5_Definitions THEN pc = "thrown" ELSE
      IF c.place \in {"field", "fragment spread", "inline fragment", "inline fragment on"}
        THEN pc = "returned" ELSE TRUE

\* C5 (amended): the arguments of directives are const on the definitions of
\* the type system only (schema, scalar, object type, interface, union, enum,
\* input object, object type extension, and the field, input value and enum
\* value definitions in them): a `$` there makes parse throw 'Unexpected $' at
\* that `$`, and no directive of such a node of a returned tree holds a
\* Variable.  On operation definitions, fragment definitions, fields, fragment
\* spreads and inline fragments the variable is accepted as a Variable node.
C5_TypeSystemDirectivesAreConst ==
  /\ \A n \in ResultNodes :
       n.kind \in TypeSystemDirectiveKinds =>
         \A i \in 1..Len(n.directives) :
           \A m \in Nodes(n.directives[i]) : m.kind # Kind_VARIABLE
  /\ \A c \in DirectiveContexts :
       \A v \in DirectiveValues(c) :
         IF c.const /\ FirstDollar(v) # 0
           THEN /\ pc = "thrown"
                /\ result.message = "Unexpected $"
                /\ result.offset = Tokens[1 + Len(c.pre) + 5 + FirstDollar(v)].start
           ELSE /\ pc = "returned"
                /\ (FirstDollar(v) # 0) <=>
                     \E d \in ResultNodes :
                       /\ d.kind = Kind_DIRECTIVE
                       /\ \E m \in Nodes(d) : m.kind = Kind_VARIABLE

\* a variable nested in the argument of a directive has been refused on an
\* enum type definition
C5_Witness ==
  /\ pc = "thrown"
  /\ result.message = "Unexpected $"
  /\ \E c \in DirectiveContexts, v \in Values(MaxDepth - 1) :
       /\ DirectiveCase(c, v)
       /\ c.place = "enum"
       /\ FirstDollar(v) > 1

\* ------------------------------------------------------------------------
\* C6  descriptions before type-system definitions
\* ------------------------------------------------------------------------

\* the kinds of the definitions that parse a description first
DescribedKinds ==
  { Kind_SCALAR_TYPE_DEFINITION, Kind_OBJECT_TYPE_DEFINITION,
    Kind_INTERFACE_TYPE_DEFINITION, Kind_UNION_TYPE_DEFINITION,
    Kind_ENUM_TYPE_DEFINITION, Kind_INPUT_OBJECT_TYPE_DEFINITION,
    Kind_DIRECTIVE_DEFINITION }

\* the kinds of the definitions that parse none
UndescribedKinds == { Kind_SCHEMA_DEFINITION, Kind_OBJECT_TYPE_EXTENSION }

\* the source, which begins with a keyword, has been accepted by parse as one
\* definition of the kind k
AcceptedAs(k) ==
  /\ entry = "parse"
  /\ pc = "returned"
  /\ Len(result.definitions) = 1
  /\ result.definitions[1].kind = k
  /\ source[1].kind = TokenKind.NAME

\* parse of the source with the description lexeme d put before it
Described(d) == parse(<<d>> \o source, options)

AfterSpread(n) == Tokens[n.loc.startToken + 1]

\* C7: in a returned tree with locations, a node that began at `...` is a
\* FragmentSpread exactly when the token after `...` is a NAME other than `on`,
\* else an InlineFragment, whose typeCondition is non-null exactly when that
\* token is a NAME with the value `on`.
C7_TypeConditionOnlyAfterNameOn ==
  (pc = "returned" /\ ~options.noLocation) =>
    \A n \in ResultNodes :
      n.kind \in {Kind_FRAGMENT_SPREAD, Kind_INLINE_FRAGMENT} =>
        /\ Tokens[n.loc.startToken].kind = TokenKind.SPREAD
        /\ n.kind = Kind_FRAGMENT_SPREAD
             <=> (AfterSpread(n).kind = TokenKind.NAME /\ AfterSpread(n).value # "on")
        /\ n.kind = Kind_INLINE_FRAGMENT =>
             (n.typeCondition # null
                <=> (AfterSpread(n).kind = TokenKind.NAME /\ AfterSpread(n).value = "on"))

\* ------------------------------------------------------------------------
\* C8  no fragment is named `on`
\* ------------------------------------------------------------------------

\* C8: no FragmentDefinition and no FragmentSpread of a returned tree has the
\* name `on`; a source that puts `on` right after the keyword `fragment`, where
\* the name of the fragment stands, makes parse throw 'Unexpected Name "on"'
\* at that token.
C8_NoFragmentNamedOn ==
  /\ \A n \in ResultNodes :
       n.kind \in {Kind_FRAGMENT_DEFINITION, Kind_FRAGMENT_SPREAD} => n.name.value # "on"
  /\ ( /\ entry = "parse"
       /\ Len(source) >= 2
       /\ source[1] = name("fragment")
       /\ source[2] = name("on") ) =>
         /\ pc = "thrown"
         /\ result.message = "Unexpected Name \"on\""
         /\ result.offset = Tokens[3].start
         /\ lexer.token = 3

\* `fragment on on a { a }` has been refused
C8_Witness ==
  /\ entry = "parse"
  /\ pc = "thrown"
  /\ source = <<name("fragment"), name("on"), name("on"), name("a")>> \o SelectionSetA
  /\ result.message = "Unexpected Name \"on\""

\* ------------------------------------------------------------------------
\* C9  the lists of `many` have an element, those of `any` may have none
\* ------------------------------------------------------------------------

\* the source has the lexemes a and b next to each other
Adjacent(a, b) == \E i \in 1..(Len(source) - 1) : source[i] = a /\ source[i + 1] = b

\* C9: (1) in a returned tree the selections of a selection set, the operation
\* types of a schema, the fields of an object type, interface and input object
\* and the values of an enum have an element; (2) no document with `(` next to
\* `)` is returned, and one returned with `{` next to `}` holds an object value
\* without fields; (3) each list many parses, given empty, makes parse throw at
\* its close bracket, and given one or two items is returned with as many
\* elements; (4) `[ ]` and `{ }` are returned by parseValue and as an argument,
\* a list value of no values and an object value of no fields.
C9_ManyNonEmptyAnyMayBeEmpty ==
  /\ \A n \in ResultNodes :
       /\ n.kind = Kind_SELECTION_SET => n.selections # <<>>
       /\ n.kind = Kind_SCHEMA_DEFINITION => n.operationTypes # <<>>
       /\ n.kind \in { Kind_OBJECT_TYPE_DEFINITION, Kind_INTERFACE_TYPE_DEFINITION,
                       Kind_INPUT_OBJECT_TYPE_DEFINITION } => n.fields # <<>>
       /\ n.kind = Kind_ENUM_TYPE_DEFINITION => n.values # <<>>
  /\ (entry = "parse" /\ pc = "returned") =>
       /\ ~Adjacent(punct("("), punct(")"))
       /\ Adjacent(punct("{"), punct("}")) =>
            \E n \in ResultNodes : n.kind = Kind_OBJECT /\ n.fields = <<>>
  /\ \A c \in ManyContexts, k \in 0..2 :
       (entry = "parse" /\ source = ManySource(c, k)) =>
         IF k = 0
           THEN /\ pc = "thrown"
                /\ result.offset = Tokens[Len(c.pre) + 3].start
                /\ Tokens[Len(c.pre) + 3].kind = c.close.kind
                /\ lexer.token = Len(c.pre) + 3
           ELSE /\ pc = "returned"
                /\ \E n \in ResultNodes : n.kind = c.kind /\ Len(n[c.field]) = k
  /\ \A c \in ValueContexts :
       ~c.const =>
         /\ (entry = c.fn /\ source = c.pre \o <<punct("["), punct("]")>> \o c.post) =>
              /\ pc = "returned"
              /\ \E n \in ResultNodes : n.kind = Kind_LIST /\ n.values = <<>>
         /\ (entry = c.fn /\ source = c.pre \o <<punct("{"), punct("}")>> \o c.post) =>
              /\ pc = "returned"
              /\ \E n \in ResultNodes : n.kind = Kind_OBJECT /\ n.fields = <<>>

\* `enum E { }` has been refused at `}`
C9_Witness ==
  /\ entry = "parse"
  /\ pc = "thrown"
  /\ source = <<name("enum"), name("E"), punct("{"), punct("}")>>
  /\ result.message = "Expected Name, found }"

\* ------------------------------------------------------------------------
\* C10  non-null never wraps non-null
\* ------------------------------------------------------------------------

\* C10: (1) in a returned tree the type of a NonNullType is a NamedType or a
\* ListType; (2) no source with `!` next to `!` is returned, by no entry point,
\* and `Int ! !` makes parseType throw at the second `!`; (3) parseType of
\* `[ Int ! ] !` returns NonNullType(ListType(NonNullType(NamedType Int))).
C10_NonNullWrapsNamedOrList ==
  /\ \A n \in ResultNodes :
       n.kind = Kind_NON_NULL_TYPE => n.type.kind \in {Kind_NAMED_TYPE, Kind_LIST_TYPE}
  /\ Adjacent(punct("!"), punct("!")) => pc # "returned"
  /\ (entry = "parseType" /\ source = <<name("Int"), punct("!"), punct("!")>>) =>
       /\ pc = "thrown"
       /\ result.message = "Expected <EOF>, found !"
       /\ result.offset = Tokens[4].start
  /\ ( /\ entry = "parseType"
       /\ source = <<punct("["), name("Int"), punct("!"), punct("]"), punct("!")>> ) =>
         /\ pc = "returned"
         /\ result.kind = Kind_NON_NULL_TYPE
         /\ result.type.kind = Kind_LIST_TYPE
         /\ result.type.type.kind = Kind_NON_NULL_TYPE
         /\ result.type.type.type.kind = Kind_NAMED_TYPE
         /\ result.type.type.type.name.value = "Int"

\* parseType has returned a non-null list of non-null items
C10_Witness ==
  /\ entry = "parseType"
  /\ pc = "returned"
  /\ result.kind = Kind_NON_NULL_TYPE
  /\ result.type.kind = Kind_LIST_TYPE
  /\ result.type.type.kind = Kind_NON_NULL_TYPE

\* ------------------------------------------------------------------------
\* C11  locations nest and siblings do not overlap
\* ------------------------------------------------------------------------

\* the location of the child c lies inside that of the node n
Inside(c, n) ==
  /\ n.loc.start <= c.loc.start
  /\ c.loc.end <= n.loc.end
  /\ n.loc.startToken <= c.loc.startToken
  /\ c.loc.endToken <= n.loc.endToken

\* a tree has been returned with locations
Located == pc = "returned" /\ ~options.noLocation

\* C11 (as stated): in a tree returned with locations the range of every child
\* lies strictly inside the range of its parent (inside it, and not the same
\* range), and siblings have disjoint ranges in the order of the source.
C11_LocationsNestStrictly ==
  Located =>
    \A n \in ResultNodes :
      \A i \in 1..Len(children(n)) :
        /\ Inside(children(n)[i], n)
        /\ <<children(n)[i].loc.start, children(n)[i].loc.end>> # <<n.loc.start, n.loc.end>>
        /\ \A j \in (i + 1)..Len(children(n)) :
             children(n)[i].loc.end <= children(n)[j].loc.start

\* C11 (amended): in a tree returned with locations (1) the location of every
\* node runs from the start of a token to the end of a token that is not before
\* it, that of a Document from SOF to EOF; (2) the range of every child lies
\* inside the range of its parent, and may be the whole of it (a NamedType and
\* its Name, a Field that is only a name); (3) siblings have disjoint ranges,
\* of disjoint tokens, in the order of the source.
C11_LocationsNest ==
  Located =>
    \A n \in ResultNodes :
      /\ n.loc.startToken \in 1..EOFIndex
      /\ n.loc.endToken \in n.loc.startToken..EOFIndex
      /\ n.loc.start = Tokens[n.loc.startToken].start
      /\ n.loc.end = Tokens[n.loc.endToken].end
      /\ n.kind = Kind_DOCUMENT => (n.loc.startToken = 1 /\ n.loc.endToken = EOFIndex)
      /\ n.kind # Kind_DOCUMENT => (n.loc.startToken > 1 /\ n.loc.endToken < EOFIndex)
      /\ \A i \in 1..Len(children(n)) :
           /\ Inside(children(n)[i], n)
           /\ \A j \in (i + 1)..Len(children(n)) :
                /\ children(n)[i].loc.end <= children(n)[j].loc.start
                /\ children(n)[i].loc.endToken < children(n)[j].loc.startToken

\* a field with an alias, an argument and a selection set has been returned
\* with locations, its five children apart and inside it
C11_Witness ==
  /\ Located
  /\ \E n \in ResultNodes :
       /\ n.kind = Kind_FIELD
       /\ Len(children(n)) >= 3
       /\ n.arguments # <<>>
       /\ children(n)[1].loc.end < children(n)[2].loc.start

\* ------------------------------------------------------------------------
\* C12  noLocation decides the loc of every node
\* ------------------------------------------------------------------------

\* the fields of a node that hold a list of nodes
ListFields ==
  { "definitions", "variableDefinitions", "directives", "selections", "arguments",
    "values", "fields", "operationTypes", "interfaces", "types", "locations" }

\* the field f of the node n holds a node
IsNodeField(n, f) ==
  /\ \/ f \in { "name", "alias", "type", "typeCondition", "selectionSet", "variable",
                "defaultValue", "description" }
     \/ f = "value" /\ n.kind \in {Kind_ARGUMENT, Kind_OBJECT_FIELD}
  /\ n[f] # null
  /\ n[f] # undefined

\* the tree n with the loc of every node taken away
RECURSIVE StripLoc(_)
StripLoc(n) ==
  [ f \in DOMAIN n |->
      IF f = "loc" THEN undefined
      ELSE IF f \in ListFields THEN [i \in DOMAIN n[f] |-> StripLoc(n[f][i])]
      ELSE IF IsNodeField(n, f) THEN StripLoc(n[f])
      ELSE n[f] ]

\* the same call with the other value of noLocation
OtherLocation == Run(entry, source, [noLocation |-> ~options.noLocation])

\* the same call with no options, and with options that have no noLocation
NoOptions == Run(entry, source, undefined)
NoNoLocation == Run(entry, source, <<>>)

\* C12: with noLocation true every node of a returned tree has loc undefined;
\* with noLocation false every node has a location, and the call without
\* options or without noLocation returns the very same tree; the same call
\* with the other value of noLocation returns when this one returned, the same
\* tree once the locations are taken away, and throws the same error when this
\* one threw.
C12_NoLocationIsUniform ==
  /\ pc = "returned" =>
       /\ \A n \in ResultNodes :
            IF options.noLocation
              THEN n.loc = undefined
              ELSE n.loc # undefined /\ n.loc.start <= n.loc.end
       /\ \A other \in {OtherLocation}, stripped \in {StripLoc(result)} :
            /\ other.ok
            /\ StripLoc(other.val) = stripped
            /\ options.noLocation => stripped = result
            /\ ~options.noLocation => stripped # result
       /\ ~options.noLocation =>
            \A none \in {NoOptions}, empty \in {NoNoLocation} :
              /\ none.ok /\ none.val = result
              /\ empty.ok /\ empty.val = result
  /\ pc = "thrown" =>
       \A other \in {OtherLocation} : ~other.ok /\ other.err = result

\* a document with an object value in an argument has been returned without
\* locations
C12_Witness ==
  /\ pc = "returned"
  /\ entry = "parse"
  /\ options.noLocation
  /\ \E n \in ResultNodes : n.kind = Kind_OBJECT_FIELD

\* ------------------------------------------------------------------------
\* C13  an object type extension extends something
\* ------------------------------------------------------------------------

\* the source begins `extend type Name`
ExtendsType ==
  /\ entry = "parse"
  /\ Len(source) >= 3
  /\ source[1] = name("extend")
  /\ source[2] = name("type")
  /\ source[3].kind = TokenKind.NAME

\* parse has thrown 'Unexpected ...' at the i-th token
UnexpectedAt(i) ==
  /\ pc = "thrown"
  /\ result.message = "Unexpected " \o getTokenDesc(Tokens[i])
  /\ result.offset = Tokens[i].start

\* C13: (1) every ObjectTypeExtension of a returned tree has an interface, a
\* directive or a field; (2) a source that begins `extend type Name` and goes
\* on with none of the name `implements`, `@` and `{` makes parse throw
\* 'Unexpected ...' at the token after the name; (3) a source that begins
\* `extend` and goes on with anything but the name `type` makes parse throw
\* 'Unexpected ...' at that token.
C13_ExtensionExtendsSomething ==
  /\ \A n \in ResultNodes :
       n.kind = Kind_OBJECT_TYPE_EXTENSION =>
         n.interfaces # <<>> \/ n.directives # <<>> \/ n.fields # <<>>
  /\ ( /\ ExtendsType
       /\ Tokens[5] # [Tokens[5] EXCEPT !.kind = TokenKind.NAME, !.value = "implements"]
       /\ Tokens[5].kind \notin {TokenKind.AT, TokenKind.BRACE_L} ) => UnexpectedAt(5)
  /\ ( /\ entry = "parse"
       /\ Len(source) >= 1
       /\ source[1] = name("extend")
       /\ Tokens[3] # [Tokens[3] EXCEPT !.kind = TokenKind.NAME, !.value = "type"] )
       => UnexpectedAt(3)

\* ------------------------------------------------------------------------
\* C14  the locations of a directive definition
\* ------------------------------------------------------------------------

\* Reading the lexemes h as `|`-separated locations, a name being expected at
\* the position p: what goes wrong first and where.  "ok": nothing, h is a list
\* of locations; "name": h[p] is no NAME (or h ends); "member": the name h[p] is
\* outside the set; "rest": h[p], after a complete list, begins something else.
RECURSIVE Locations(_, _)
Locations(h, p) ==
  IF p > Len(h) \/ h[p].kind # TokenKind.NAME THEN [what |-> "name", at |-> p]
  ELSE IF h[p].value \notin DirectiveLocation THEN [what |-> "member", at |-> p]
  ELSE IF p = Len(h) THEN [what |-> "ok", at |-> p]
  ELSE IF h[p + 1] = punct("|") THEN Locations(h, p + 2)
  ELSE [what |-> "rest", at |-> p + 1]

\* the same with the optional leading `|`
LocationList(h) == Locations(h, IF h # <<>> /\ h[1] = punct("|") THEN 2 ELSE 1)

\* the values of the NAME lexemes of h, in order
RECURSIVE NameValues(_)
NameValues(h) ==
  IF h = <<>> THEN <<>>
  ELSE (IF h[1].kind = TokenKind.NAME THEN <<h[1].value>> ELSE <<>>) \o NameValues(Tail(h))

\* C14: (1) the locations of every DirectiveDefinition of a returned tree are
\* one or more names of the DirectiveLocation set; (2) what follows `directive
\* @ d on` is accepted exactly when it is such names with `|` between them and
\* at most one `|` before them, and the locations are those names in order;
\* (3) the first name outside the set makes parse throw 'Unexpected Name "..."'
\* at the start of that name, the cursor being one token past it; (4) a
\* missing name is an error at the token found in its place, and what follows
\* a complete list without a `|` is refused as the next definition, not before
\* its first token.
C14_DirectiveLocationsAreMembers ==
  /\ \A n \in ResultNodes :
       n.kind = Kind_DIRECTIVE_DEFINITION =>
         /\ n.locations # <<>>
         /\ \A i \in 1..Len(n.locations) :
              /\ n.locations[i].kind = Kind_NAME
              /\ n.locations[i].value \in DirectiveLocation
  /\ (entry = "parse" /\ Around(DirectiveHead, <<>>) /\ source \in DirectiveLocationSources) =>
       LET h == Inner(DirectiveHead, <<>>)
           r == LocationList(h)
           at == 1 + Len(DirectiveHead) + r.at IN
       CASE r.what = "ok" ->
              /\ pc = "returned"
              /\ Len(result.definitions) = 1
              /\ [i \in 1..Len(result.definitions[1].locations) |->
                    result.definitions[1].locations[i].value] = NameValues(h)
         [] r.what = "member" ->
              /\ UnexpectedAt(at)
              /\ result.message = "Unexpected Name \"" \o h[r.at].value \o "\""
              /\ lexer.token = at + 1
              /\ lexer.lastToken = at
         [] r.what = "name" ->
              /\ pc = "thrown"
              /\ result.message = "Expected Name, found " \o getTokenDesc(Tokens[at])
              /\ result.offset = Tokens[at].start
              /\ lexer.token = at
         [] r.what = "rest" ->
              /\ pc = "thrown"
              /\ result.offset >= Tokens[at].start
              /\ lexer.token = at

\* `directive @ d on | QUERY | FOO | FIELD` has been refused at FOO
C14_Witness ==
  /\ entry = "parse"
  /\ source = DirectiveHead \o <<punct("|"), name("QUERY"), punct("|"), name("FOO")>>
  /\ pc = "thrown"
  /\ result.message = "Unexpected Name \"FOO\""
  /\ lexer.token = EOFIndex

\* ------------------------------------------------------------------------
\* C15  parseImplementsInterfaces
\* ------------------------------------------------------------------------

\* the lexer of the source, the tokens before the i-th consumed
LexerAt(i) == [createLexer(source, options) EXCEPT !.token = i, !.lastToken = i - 1]

\* the number of consecutive NAME tokens from the i-th token on
RECURSIVE NameRun(_)
NameRun(i) == IF Tokens[i].kind = TokenKind.NAME THEN 1 + NameRun(i + 1) ELSE 0

\* C15: parseImplementsInterfaces, applied after the `type T` that begins the
\* source, (1) consumes nothing and returns the empty list when the current
\* token is not the NAME `implements`; (2) else consumes `implements` and the
\* whole run of NAME tokens after it, returning one NamedType for each in
\* order, and throws at the token after `implements` when that is no NAME.
C15_ImplementsOnlyAfterKeyword ==
  ( /\ entry = "parse"
    /\ Len(source) >= 2
    /\ source[1] = name("type")
    /\ source[2] = name("T") ) =>
      LET r == parseImplementsInterfaces(LexerAt(4))
          run == NameRun(5) IN
      IF Tokens[4].kind = TokenKind.NAME /\ Tokens[4].value = "implements"
        THEN IF run = 0
               THEN /\ ~r.ok
                    /\ r.err.offset = Tokens[5].start
                    /\ r.err.message = "Expected Name, found " \o getTokenDesc(Tokens[5])
               ELSE /\ r.ok
                    /\ r.lex.token = 5 + run
                    /\ r.lex.lastToken = 4 + run
                    /\ Len(r.val) = run
                    /\ \A i \in 1..run :
                         /\ r.val[i].kind = Kind_NAMED_TYPE
                         /\ r.val[i].name.value = Tokens[4 + i].value
        ELSE /\ r.ok
             /\ r.val = <<>>
             /\ r.lex.token = 4
             /\ r.lex.lastToken = 3

\* ------------------------------------------------------------------------
\* C16  parseValue and the value of an argument
\* ------------------------------------------------------------------------

\* the source `{ x ( a : v ) }` for the lexemes v
InArgument(v) ==
  <<punct("{"), name("x"), punct("("), name("a"), punct(":")>> \o v
    \o <<punct(")"), punct("}")>>

\* the document of `{ x ( a : v ) }` for the value node v, without locations
ArgumentDocument(v) ==
  LET Name(n) == [kind |-> Kind_NAME, value |-> n, loc |-> undefined]
      argument == [kind |-> Kind_ARGUMENT, name |-> Name("a"), value |-> v,
                   loc |-> undefined]
      field == [kind |-> Kind_FIELD, alias |-> null, name |-> Name("x"),
                arguments |-> <<argument>>, directives |-> <<>>,
                selectionSet |-> null, loc |-> undefined]
      selectionSet == [kind |-> Kind_SELECTION_SET, selections |-> <<field>>,
                       loc |-> undefined]
      operation == [kind |-> Kind_OPERATION_DEFINITION, operation |-> "query",
                    name |-> null, variableDefinitions |-> <<>>, directives |-> <<>>,
                    selectionSet |-> selectionSet, loc |-> undefined] IN
  [kind |-> Kind_DOCUMENT, definitions |-> <<operation>>, loc |-> undefined]

\* parse of `{ x ( a : source ) }`
Embedded == parse(InArgument(source), options)

\* the value of the first argument of the first field of the document d
FirstArgumentValue(d) == d.definitions[1].selectionSet.selections[1].arguments[1].value

\* C16 as stated: parseValue(v) returns exactly when parse of `{x(a: v)}`
\* returns, and then with the value of the first argument of its first field,
\* locations apart.
C16_ValueAgreesWithArgument ==
  entry = "parseValue" =>
    /\ pc = "returned" <=> Embedded.ok
    /\ (pc = "returned" /\ Embedded.ok) =>
         StripLoc(result) = StripLoc(FirstArgumentValue(Embedded.val))

\* C16: parseValue(v) returns exactly when parseValueLiteral consumes the
\* whole of v up to <EOF>, and exactly when parse of `{x(a: v)}` returns the
\* document of one field x with the one argument a and nothing else; the value
\* returned is then the value of that argument, locations apart.  When v has
\* lexemes left over after a value parseValue throws, whatever the document.
C16_ValueAgreesWithSoleArgument ==
  entry = "parseValue" =>
    \A value \in {parseValueLiteral(LexerAt(2), FALSE)}, document \in {Embedded} :
      /\ pc = "returned" <=> (value.ok /\ value.lex.token = EOFIndex)
      /\ pc = "returned" <=>
           /\ document.ok
           /\ StripLoc(document.val)
                = ArgumentDocument(StripLoc(FirstArgumentValue(document.val)))
      /\ pc = "returned" =>
           /\ StripLoc(result) = StripLoc(value.val)
           /\ StripLoc(result) = StripLoc(FirstArgumentValue(document.val))
           /\ lexer.token = EOFIndex
      /\ (value.ok /\ value.lex.token # EOFIndex) =>
           \A tok \in {value.lex.tokens[value.lex.token]} :
             /\ pc = "thrown"
             /\ result.offset = tok.start
             /\ result.message = "Expected <EOF>, found " \o getTokenDesc(tok)

\* parseValue has thrown on `x x : x`, a value with lexemes left over, which
\* as the argument of a field is the end of one argument and another one
C16_Witness ==
  /\ entry = "parseValue"
  /\ source = <<name("x"), name("x"), punct(":"), name("x")>>
  /\ pc = "thrown"
  /\ result.message = "Expected <EOF>, found Name \"x\""
  /\ Embedded.ok
  /\ Len(Embedded.val.definitions[1].selectionSet.selections[1].arguments) = 2

\* parseValue has returned a list that holds an object
C16_ReturnedWitness ==
  /\ entry = "parseValue"
  /\ pc = "returned"
  /\ result.kind = Kind_LIST
  /\ Embedded.ok
  /\ \E n \in ResultNodes : n.kind = Kind_OBJECT

\* ------------------------------------------------------------------------
\* C17  the token cursor
\* ------------------------------------------------------------------------

\* the kinds of token
TokenKinds == { TokenKind[k] : k \in DOMAIN TokenKind }

\* the positions of the token stream of the source
Positions == 1..EOFIndex

\* the lexer l with its cursor on the i-th token
At(l, i) == [l EXCEPT !.token = i, !.lastToken = IF i = 1 THEN 1 ELSE i - 1]

\* the lexer of the source, as createLexer returns it
Start == createLexer(source, options)

\* the call has read the source to its end, and returned or thrown there
ReadToEnd == pc # "idle" /\ ~options.noLocation /\ lexer.token = EOFIndex

\* the lexers l and m have the same cursor
SameCursor(l, m) == l.token = m.token /\ l.lastToken = m.lastToken

\* the cursor of m is that of l after the token at i was consumed and the
\* cursor moved by `by`
Consumed(l, m, by) == m.token = l.token + by /\ m.lastToken = l.token

\* the productions that take the lexer alone, and those that take isConst too
Productions ==
  { "parseDefinition", "parseSelectionSet", "parseTypeReference", "parseConstValue",
    "parseValueValue", "parseImplementsInterfaces", "parseUnionMembers",
    "parseDirectiveLocations", "parseVariableDefinitions" }
ConstProductions == { "parseDirectives", "parseArguments", "parseValueLiteral" }

\* the cursor of m is where a run of advances from l leaves it
Forward(l, m) ==
  \/ SameCursor(l, m)
  \/ /\ m.token > l.token
     /\ m.lastToken = m.token - 1
  \/ /\ m.token = EOFIndex
     /\ m.lastToken = EOFIndex

\* what the combinators do at every position of a source, a matching skip,
\* expect or expectKeyword moving the cursor by by(i)
Combinators(by(_)) ==
  \A start \in {Start} : \A i \in Positions :
  \A l \in {At(start, i)} : \A tok \in {l.tokens[i]} :
    /\ \A kind \in TokenKinds :
         /\ peek(l, kind) = (tok.kind = kind)
         /\ \A s \in {skip(l, kind)}, e \in {expect(l, kind)} :
              IF tok.kind = kind
                THEN /\ s.ok /\ s.val /\ Consumed(l, s.lex, by(i))
                     /\ e.ok /\ e.val = tok /\ Consumed(l, e.lex, by(i))
                ELSE /\ s.ok /\ ~s.val /\ s.lex = l
                     /\ ~e.ok /\ SameCursor(l, e.lex)
                     /\ e.err.offset = tok.start
    /\ \A value \in { "on", "extend", tok.value } : \A k \in {expectKeyword(l, value)} :
         IF tok.kind = TokenKind.NAME /\ tok.value = value
           THEN k.ok /\ k.val = tok /\ Consumed(l, k.lex, by(i))
           ELSE ~k.ok /\ SameCursor(l, k.lex) /\ k.err.offset = tok.start
    /\ lookahead(l) = l.tokens[IF i = EOFIndex THEN i ELSE i + 1]

\* the cursor goes forward in the call, and in every production started at
\* every position of a source that a call reads to its end
CursorGoesForward ==
  /\ pc # "idle" =>
       /\ lexer.token \in Positions
       /\ lexer.lastToken \in Positions
       /\ Forward([token |-> 1, lastToken |-> 1], lexer)
       /\ \A i \in DOMAIN raised : raised[i].token = lexer.token
  /\ ReadToEnd =>
       \A start \in {Start} : \A i \in Positions : \A l \in {At(start, i)} :
         /\ \A fn \in Productions : Forward(l, call(fn, <<l>>).lex)
         /\ \A fn \in ConstProductions, isConst \in BOOLEAN :
              Forward(l, call(fn, <<l, isConst>>).lex)

LoopItems ==
  { "parseDefinition", "parseNamedType", "parseDirectiveLocation", "parseConstValue",
    "parseValueValue", "parseVariableDefinition", "parseSelection", "parseArgument",
    "parseConstArgument", "parseOperationTypeDefinition", "parseFieldDefinition",
    "parseInputValueDef", "parseEnumValueDefinition" }

\* the bodies of the loops of parseObject and parseDirectives, which take isConst
ConstLoopItems == { "parseObjectField", "parseDirective" }

\* the bracketed lists: the kinds that open and close them, and the
\* productions that parse them
Brackets ==
  { [open |-> TokenKind.BRACKET_L, close |-> TokenKind.BRACKET_R,
     fns |-> {"parseTypeReference"}, constFns |-> {"parseList"}],
    [open |-> TokenKind.BRACE_L, close |-> TokenKind.BRACE_R,
     fns |-> {"parseSelectionSet", "parseFieldDefinitions"}, constFns |-> {"parseObject"}],
    [open |-> TokenKind.PAREN_L, close |-> TokenKind.PAREN_R,
     fns |-> {"parseVariableDefinitions", "parseArgumentDefs"},
     constFns |-> {"parseArguments"}] }

\* the i-th token opens the bracketed list b and no later token closes one
Unclosed(toks, i, b) ==
  /\ toks[i].kind = b.open
  /\ \A j \in (i + 1)..Len(toks) : toks[j].kind # b.close

\* r is the end of a loop body begun at the i-th token: it has thrown, or it
\* has consumed a token; at <EOF> it has thrown at <EOF>
GoesForward(toks, i, r) ==
  /\ r.ok => r.lex.token > i
  /\ i = Len(toks) => ~r.ok /\ r.err.offset = toks[i].start

\* r is the end of a bracketed list that is not closed: it has thrown, at
\* <EOF> when the cursor came there
ThrownUnclosed(toks, r) ==
  /\ ~r.ok
  /\ r.lex.token = Len(toks) => r.err.offset = toks[Len(toks)].start

\* C18: the body of every loop, started at any token of a source that a call
\* reads to its end, consumes at least one token or throws, and throws at
\* <EOF>; every production of a bracketed list started at a bracket that no
\* later token closes throws, and no call returns on a source with such a
\* bracket; every call ends returned, or thrown with the one error raised.
C18_LoopsGoForward ==
  /\ pc \in {"idle", "returned", "thrown"}
  /\ pc = "returned" => raised = <<>>
  /\ pc = "thrown" => Len(raised) = 1
  /\ pc = "returned" =>
       \A toks \in {Tokens} :
         ~ \E i \in DOMAIN toks, b \in Brackets : Unclosed(toks, i, b)
  /\ ReadToEnd =>
       \A start \in {Start} : \A i \in Positions : \A l \in {At(start, i)} :
         /\ \A fn \in LoopItems : GoesForward(l.tokens, i, call(fn, <<l>>))
         /\ \A fn \in ConstLoopItems, isConst \in BOOLEAN :
              GoesForward(l.tokens, i, call(fn, <<l, isConst>>))
         /\ \A b \in Brackets :
              Unclosed(l.tokens, i, b) =>
                /\ \A fn \in b.fns : ThrownUnclosed(l.tokens, call(fn, <<l>>))
                /\ \A fn \in b.constFns, isConst \in BOOLEAN :
                     ThrownUnclosed(l.tokens, call(fn, <<l, isConst>>))

\* parseValue has thrown at <EOF> in the object `{ x` that nothing closes
C18_Witness ==
  /\ entry = "parseValue"
  /\ source = <<punct("{"), name("x")>>
  /\ pc = "thrown"
  /\ result = [offset |-> Tokens[EOFIndex].start, message |-> "Expected :, found <EOF>"]
  /\ lexer.token = EOFIndex

====
